---------------------------- MODULE Spec2Model ----------------------------
(***************************************************************************)
(* Model of the content resolver of the portfolio site: the Strapi fetch   *)
(* functions (src/api/home.ts, about, blog), the page view-model builders  *)
(* (src/resources/content.tsx), the About page component and the image URL *)
(* helpers (src/utils/image.ts); and of the HTML renderer components       *)
(* (SimpleHtmlRenderer, EnhancedHtmlRenderer) and the skill bars of the    *)
(* About page.                                                             *)
(***************************************************************************)
EXTENDS Integers, Sequences, FiniteSets, TLC

(***************************************************************************)
(* JavaScript values.  Every value carries its type tag, so that a missing *)
(* field (undefined), null, a string, a boolean, a number, an array and an *)
(* object stay distinguishable.                                            *)
(***************************************************************************)
U == [t |-> "undefined"]

Null == [t |-> "null"]

S(s) == [t |-> "string", v |-> s]

B(b) == [t |-> "boolean", v |-> b]

Num(n) == [t |-> "number", v |-> n]

A(seq) == [t |-> "array", v |-> seq]

O(rec) == [t |-> "object", v |-> rec]

\* A React element: its component kind and its single child / prop.
Elem(kind, child) == [t |-> "element", kind |-> kind, child |-> child]

\* A thrown JavaScript error, as the outcome of a call.
Throw(name) == [t |-> "throw", err |-> name]

IsThrow(x) == x.t = "throw"

\* x is undefined or null: a property read on it raises a TypeError.
Nullish(x) == x.t \in {"undefined", "null"}

\* JavaScript truthiness (if (x), x || y, x ? a : b).
Truthy(x) ==
    CASE x.t \in {"undefined", "null"} -> FALSE
      [] x.t = "boolean" -> x.v
      [] x.t = "string" -> x.v # ""
      [] x.t = "number" -> x.v # 0
      [] OTHER -> TRUE

\* obj.field for a value that is not nullish: undefined when the field is
\* absent or when obj is a primitive.
Get(obj, field) ==
    IF obj.t = "object" /\ field \in DOMAIN obj.v THEN obj.v[field] ELSE U

\* obj?.field
GetOpt(obj, field) == IF Nullish(obj) THEN U ELSE Get(obj, field)

\* a || b
OrElse(a, b) == IF Truthy(a) THEN a ELSE b

\* a ?? b
Coalesce(a, b) == IF Nullish(a) THEN b ELSE a

\* `${x}` : template-literal conversion of a primitive to text.
Str(x) ==
    CASE x.t = "string" -> x.v
      [] x.t = "undefined" -> "undefined"
      [] x.t = "null" -> "null"
      [] x.t = "boolean" -> IF x.v THEN "true" ELSE "false"
      [] OTHER -> "[object Object]"

(***************************************************************************)
(* Process configuration (process.env).  An unset variable is "".          *)
(***************************************************************************)
EnvNames ==
    {"STRAPI_API_URL", "NEXT_PUBLIC_STRAPI_API_URL", "STRAPI_IMAGE_URL",
     "NEXT_PUBLIC_STRAPI_IMAGE_URL", "STRAPI_API_TOKEN"}

EnvVar(e, name) == IF e[name] = "" THEN U ELSE S(e[name])

MkEnv(api, pubApi, image, pubImage, token) ==
    [STRAPI_API_URL |-> api, NEXT_PUBLIC_STRAPI_API_URL |-> pubApi,
     STRAPI_IMAGE_URL |-> image, NEXT_PUBLIC_STRAPI_IMAGE_URL |-> pubImage,
     STRAPI_API_TOKEN |-> token]

\* Every configuration over one value per variable.
AllEnvs ==
    { MkEnv(a, pa, i, pi, tk) :
        a \in {"", "http://api"}, pa \in {"", "http://pub-api"},
        i \in {"", "http://img"}, pi \in {"", "http://pub-img"},
        tk \in {"", "secret"} }

VARIABLES
    env,        \* process.env of the server
    route,      \* route[r]: the page type render r renders
    inv,        \* inv[r][c]: the resolver invocation of caller c in render r
    cacheAbout, \* cacheAbout[r]: React cache() entry of getAboutContent in render r
    cacheBlog,  \* cacheBlog[r]: React cache() entry of getBlogPosts in render r
    sent,       \* sent[r]: HTTP requests render r has sent for its page type
    lastReq,    \* the last HTTP request handed to fetch()
    ret,        \* the last value a page resolver handed back to its caller
    shown,      \* shown[r]: what the About component of render r rendered
    statics,    \* the module-level records staticHome and staticAbout
    imgIn,      \* argument of getBestImageUrl
    imgOut,     \* its result
    html,       \* props of an HTML renderer component
    rendered,   \* the element the renderer component returned
    skills,     \* about.technical.skills handed to the About page
    bars,       \* the ProgressBar values the About page rendered for them
    cookie,     \* the locale cookie the server has set in the browser
    request,    \* the HTTP request the site is handling
    response,   \* what the middleware or the route handler answered
    redirects,  \* redirects the middleware has answered in this navigation
    detected,   \* what detectServerLocale returned for the request
    localeState,\* LocaleProvider: the locale state of the current render
    storage,    \* localStorage.getItem("locale")
    language,   \* navigator.language
    effects,    \* LocaleProvider: the effects still to run after the commit
    pending,    \* LocaleProvider: the state update queued by setLocaleState
    blog,       \* the posts and props handed to the blog page's listings
    listings    \* the posts each Posts listing of the blog page rendered

vars ==
    <<env, route, inv, cacheAbout, cacheBlog, sent, lastReq, ret, shown,
      statics, imgIn, imgOut, html, rendered, skills, bars,
      cookie, request, response, redirects, detected,
      localeState, storage, language, effects, pending, blog, listings>>

rendererVars == <<html, rendered, skills, bars>>

localeVars == <<cookie, request, response, redirects, detected>>

providerVars == <<localeState, storage, language, effects, pending>>

postsVars == <<blog, listings>>

siteVars == <<localeVars, providerVars, postsVars>>

resolverVars ==
    <<route, inv, cacheAbout, cacheBlog, sent, lastReq, ret, shown, statics>>

(***************************************************************************)
(* src/utils/image.ts                                                      *)
(***************************************************************************)
\* getStrapiImageUrl preferring the API URL to the image URL.
StrapiImageUrlApiFirst(e, imagePath) ==
    LET apiUrl == OrElse(EnvVar(e, "STRAPI_API_URL"),
                         EnvVar(e, "NEXT_PUBLIC_STRAPI_API_URL"))
        imageUrl == OrElse(EnvVar(e, "STRAPI_IMAGE_URL"),
                           OrElse(EnvVar(e, "NEXT_PUBLIC_STRAPI_IMAGE_URL"),
                                  S("http://localhost:1337")))
    IN  IF Truthy(apiUrl)
        THEN S(Str(apiUrl) \o Str(imagePath))
        ELSE S(Str(imageUrl) \o Str(imagePath))

getStrapiImageUrl(e, imagePath) ==
    LET imageUrl == OrElse(EnvVar(e, "STRAPI_IMAGE_URL"),
                           EnvVar(e, "NEXT_PUBLIC_STRAPI_IMAGE_URL"))
        apiUrl == OrElse(EnvVar(e, "STRAPI_API_URL"),
                         OrElse(EnvVar(e, "NEXT_PUBLIC_STRAPI_API_URL"),
                                S("http://localhost:1337")))
    IN  IF Truthy(imageUrl)
        THEN S(Str(imageUrl) \o Str(imagePath))
        ELSE S(Str(apiUrl) \o Str(imagePath))

fallbackOrder == <<"large", "medium", "small", "thumbnail">>

\* image.formats?.[size]
FormatOf(image, size) == GetOpt(Get(image, "formats"), size)

\* Mutant: the fallback loop stops before the last entry of fallbackOrder.
BestImageUrlNoThumbnail(e, image, preferredSize) ==
    LET preferredFormat == FormatOf(image, preferredSize)
        hits == { i \in 1..(Len(fallbackOrder) - 1) :
                    Truthy(FormatOf(image, fallbackOrder[i])) }
    IN  IF Truthy(preferredFormat)
        THEN getStrapiImageUrl(e, Get(preferredFormat, "url"))
        ELSE IF hits # {}
        THEN LET first == CHOOSE i \in hits : \A j \in hits : i <= j
             IN  getStrapiImageUrl(e, Get(FormatOf(image, fallbackOrder[first]), "url"))
        ELSE getStrapiImageUrl(e, Get(image, "url"))

getBestImageUrl(e, image, preferredSize) ==
    LET preferredFormat == FormatOf(image, preferredSize)
        hits == { i \in 1..Len(fallbackOrder) :
                    Truthy(FormatOf(image, fallbackOrder[i])) }
    IN  IF Truthy(preferredFormat)
        THEN getStrapiImageUrl(e, Get(preferredFormat, "url"))
        ELSE IF hits # {}
        THEN LET first == CHOOSE i \in hits : \A j \in hits : i <= j
             IN  getStrapiImageUrl(e, Get(FormatOf(image, fallbackOrder[first]), "url"))
        ELSE getStrapiImageUrl(e, Get(image, "url"))

(***************************************************************************)
(* What the CMS does with one HTTP request: the connection fails (network  *)
(* error or timeout), or a response arrives with a status and a body.  A   *)
(* body is a parsed JSON value, or Unparseable when response.json() fails. *)
(***************************************************************************)
Unparseable == [t |-> "unparseable"]

NetworkFailure == [kind |-> "network"]

Response(status, body) == [kind |-> "response", status |-> status, body |-> body]

\* response.ok
ResponseOk(outcome) == outcome.status >= 200 /\ outcome.status <= 299

Without(rec, field) == [k \in DOMAIN rec \ {field} |-> rec[k]]

\* A Strapi media object with the given size variants.
Image(id, sizes) ==
    O([id |-> Num(id), alternativeText |-> Null, caption |-> S("cap"),
       url |-> S("/uploads/orig.jpg"),
       formats |-> O([z \in sizes |-> O([url |-> S("/uploads/" \o z \o ".jpg")])])])

(***************************************************************************)
(* src/unnamed/part_005 : markdownToHtml.  remark renders a paragraph of   *)
(* plain text as <p>text</p> followed by a newline, and an empty document  *)
(* as the empty string.                                                    *)
(***************************************************************************)
markdownToHtml(markdown) ==
    IF markdown.t = "string" /\ markdown.v # ""
    THEN S("<p>" \o markdown.v \o "</p>\n")
    ELSE S("")

(***************************************************************************)
(* src/api/home.ts : getHomeContent, from the await of fetch() on.         *)
(***************************************************************************)
HomeFields ==
    {"headline", "hasFeatured", "featured", "subLine", "hasCarousel", "carousel",
     "hasNewsletter", "newsletterTitle", "newsletterDescription"}

\* const {...} = body.data; return {...}
Destructure(body, fields) ==
    IF Nullish(body) THEN Throw("TypeError")
    ELSE IF Nullish(Get(body, "data")) THEN Throw("TypeError")
    ELSE O([f \in fields |-> Get(Get(body, "data"), f)])

\* Mutant: the body is read without looking at response.ok.
AfterFetchIgnoresStatus(outcome, fields) ==
    IF outcome.kind = "network" THEN Throw("FetchError")
    ELSE IF outcome.body.t = "unparseable" THEN Throw("SyntaxError")
    ELSE Destructure(outcome.body, fields)

\* The part of a Strapi fetch function after fetch() settles.
AfterFetch(outcome, fields) ==
    IF outcome.kind = "network" THEN Throw("FetchError")
    ELSE IF ~ResponseOk(outcome) THEN Throw("HttpError")
    ELSE IF outcome.body.t = "unparseable" THEN Throw("SyntaxError")
    ELSE Destructure(outcome.body, fields)

getHomeContentAfterFetch(outcome) == AfterFetch(outcome, HomeFields)

\* getHomeContentSafe / getAboutContentSafe: try { return await f() } catch { return null }
Safe(result) == IF IsThrow(result) THEN Null ELSE result

(***************************************************************************)
(* src/resources/content.tsx : person, staticHome, getHomePageContent.     *)
(* A view-model is a record of JavaScript values tagged "viewmodel".       *)
(***************************************************************************)
person ==
    [firstName |-> "Axel", name |-> "Axel Rodriguez", role |-> "Software Engineer",
     avatar |-> "/images/avatar.jpg", location |-> "America/Guatemala"]

staticHome ==
    [t |-> "viewmodel",
     path |-> S("/"),
     image |-> S("/images/og/home.jpg"),
     label |-> S("Home"),
     title |-> S(person.name \o "'s Portfolio"),
     description |-> S("Portfolio website showcasing my work as a " \o person.role),
     loading |-> B(TRUE),
     headline |-> S(""),
     featured |-> [display |-> B(FALSE), title |-> S(""), href |-> S("#work")],
     subline |-> S(""),
     carousel |-> [display |-> B(FALSE),
                   images |-> A(<<O([id |-> S(""), alt |-> S(""),
                                     caption |-> S(""), url |-> S("")])>>)],
     newsletter |->
        [display |-> B(TRUE),
         title |-> Elem("fragment", S("Subscribe to " \o person.firstName \o "'s Newsletter")),
         description |-> Elem("fragment",
                              S("My weekly newsletter about creativity and engineering"))]]

\* strapiContent.carousel?.map((image) => ({...})) under hasCarousel, else []
CarouselImages(e, strapiContent) ==
    LET carousel == Get(strapiContent, "carousel")
        item(image) ==
            O([id |-> S(ToString(Get(image, "id").v)),
               alt |-> OrElse(Get(image, "alternativeText"), S("")),
               caption |-> OrElse(Get(image, "caption"), S("")),
               url |-> getBestImageUrl(e, image, "large")])
    IN  IF ~Truthy(Get(strapiContent, "hasCarousel")) THEN A(<<>>)
        ELSE IF Nullish(carousel) THEN U
        ELSE IF carousel.t # "array" THEN Throw("TypeError")
        ELSE IF \E i \in DOMAIN carousel.v :
                    Nullish(carousel.v[i]) \/ Nullish(Get(carousel.v[i], "id"))
        THEN Throw("TypeError")
        ELSE A([i \in DOMAIN carousel.v |-> item(carousel.v[i])])

\* The record getHomePageContent builds from a fetched strapiContent.
LiveHome(e, strapiContent) ==
    LET sublineHtml == markdownToHtml(Get(strapiContent, "subLine"))
        images == CarouselImages(e, strapiContent)
    IN  IF IsThrow(images) THEN images
        ELSE [staticHome EXCEPT
                !.headline = Elem("fragment", Get(strapiContent, "headline")),
                !.featured = [display |-> Get(strapiContent, "hasFeatured"),
                              title |-> Elem("Row", Get(strapiContent, "featured")),
                              href |-> staticHome.featured.href],
                !.subline = Elem("SimpleHtmlRenderer", sublineHtml),
                !.loading = B(FALSE),
                !.carousel = [display |-> Get(strapiContent, "hasCarousel"),
                              images |-> images],
                !.newsletter =
                   [display |-> Coalesce(Get(strapiContent, "hasNewsletter"), B(FALSE)),
                    title |-> Get(strapiContent, "newsletterTitle"),
                    description |-> Get(strapiContent, "newsletterDescription")]]

\* Mutant: the live record keeps the loading marker of the static record.
HomePageContentKeepsLoading(e, strapiContent) ==
    LET live == LiveHome(e, strapiContent)
    IN  IF ~Truthy(strapiContent) THEN staticHome
        ELSE IF IsThrow(live) THEN live
        ELSE [live EXCEPT !.loading = staticHome.loading]

\* getHomePageContent, from the return of getHomeContentSafe on.
getHomePageContent(e, strapiContent) ==
    IF Truthy(strapiContent) THEN LiveHome(e, strapiContent) ELSE staticHome

(***************************************************************************)
(* src/unnamed/part_007 : getAboutContent, from the await of fetch() on.   *)
(***************************************************************************)
AboutFields ==
    {"jobTitle", "biography", "profileImage", "languages", "socialLinks", "skills",
     "workExperience", "studies", "seo", "introductionSectionTitle",
     "experienceSectionTitle", "educationSectionTitle", "technicalSkillsSectionTitle"}

getAboutContentAfterFetch(outcome) == AfterFetch(outcome, AboutFields)

(***************************************************************************)
(* src/resources/content.tsx : staticAbout, getAboutPageContent.           *)
(***************************************************************************)
staticAbout ==
    [t |-> "viewmodel",
     path |-> S("/about"),
     label |-> S("About"),
     title |-> S("About - " \o person.name),
     description |-> S("Meet " \o person.name \o ", " \o person.role \o " from "
                        \o person.location),
     loading |-> B(TRUE),
     tableOfContent |->
        [display |-> B(TRUE), subItems |-> B(TRUE),
         IntroductionTitle |-> S("Introduction"), ExperienceTitle |-> S("Experience"),
         EducationTitle |-> S("Education"), TechnicalSkillsTitle |-> S("Technical Skills")],
     avatar |-> [display |-> B(TRUE), image |-> S(person.avatar),
                 alt |-> S(person.name \o " Avatar")],
     calendar |-> [display |-> B(FALSE), link |-> S("https://cal.com/axelrm/30min")],
     intro |-> [display |-> B(FALSE), title |-> S("Introduction"), description |-> S("")],
     work |-> [display |-> B(FALSE), title |-> S("Professional Experience"),
               experiences |-> A(<<>>)],
     studies |-> [display |-> B(TRUE), title |-> S("Education"), institutions |-> A(<<>>)],
     technical |-> [display |-> B(TRUE), title |-> S("Technical Skills"), skills |-> A(<<>>)],
     languages |-> [display |-> B(TRUE), list |-> A(<<>>)],
     social |-> [display |-> B(TRUE), links |-> A(<<>>)]]

\* x.length and x.map(...) raise a TypeError unless x is an array here:
\* undefined and null have no properties, and no other value has map.
NotMappable(x) == x.t # "array" \/ \E i \in DOMAIN x.v : Nullish(x.v[i])

\* The record getAboutPageContent builds from a fetched strapiContent; the
\* fields are evaluated in source order and the first TypeError ends the call.
LiveAbout(e, strapiContent) ==
    LET c == strapiContent
        mapped(field, f(_)) ==
            A([i \in DOMAIN Get(c, field).v |-> f(Get(c, field).v[i])])
        biographyHtml == markdownToHtml(Get(c, "biography"))
        profileImage == Get(c, "profileImage")
        experience(exp) ==
            O([company |-> Get(exp, "company"), timeframe |-> Get(exp, "timeframe"),
               role |-> Get(exp, "role"),
               description |-> Elem("SimpleHtmlRenderer",
                                    markdownToHtml(Get(exp, "description")))])
        institution(study) ==
            O([name |-> Get(study, "name"), title |-> Get(study, "title"),
               timeframe |-> Get(study, "timeframe"),
               description |-> Elem("SimpleHtmlRenderer",
                                    markdownToHtml(Get(study, "description")))])
        skillOf(skill) ==
            O([title |-> Get(skill, "name"), level |-> Get(skill, "level"),
               group |-> Get(skill, "group")])
        languageOf(lang) ==
            O([name |-> Get(lang, "name"), level |-> Get(lang, "level")])
        linkOf(link) ==
            O([title |-> Get(link, "platform"),
               url |-> OrElse(Get(link, "url"), S("")),
               type |-> IF Truthy(Get(link, "useIcon")) THEN S("icon") ELSE S("custom"),
               icon |-> OrElse(Get(link, "cssClass"), U),
               iconUrl |-> OrElse(Get(link, "icon"), U)])
    IN  IF Nullish(Get(c, "seo")) THEN Throw("TypeError")
        ELSE IF \E f \in {"workExperience", "studies", "skills", "languages", "socialLinks"} :
                    NotMappable(Get(c, f))
        THEN Throw("TypeError")
        ELSE [staticAbout EXCEPT
                !.loading = B(FALSE),
                !.title = S(Str(Get(c, "jobTitle")) \o " - " \o person.name),
                !.description = Get(Get(c, "seo"), "metaDescription"),
                !.tableOfContent =
                   [display |-> B(TRUE), subItems |-> B(TRUE),
                    IntroductionTitle |->
                        OrElse(Get(c, "introductionSectionTitle"), S("Introduction")),
                    ExperienceTitle |->
                        OrElse(Get(c, "experienceSectionTitle"), S("Experience")),
                    EducationTitle |->
                        OrElse(Get(c, "educationSectionTitle"), S("Education")),
                    TechnicalSkillsTitle |->
                        OrElse(Get(c, "technicalSkillsSectionTitle"), S("Technical Skills"))],
                !.avatar =
                   [display |-> B(TRUE),
                    image |-> IF Truthy(profileImage)
                              THEN getBestImageUrl(e, profileImage, "large")
                              ELSE S(person.avatar),
                    alt |-> OrElse(GetOpt(profileImage, "alternativeText"),
                                   S(person.name \o " Profile Image"))],
                !.intro = [display |-> B(TRUE), title |-> S("Introduction"),
                           description |-> Elem("SimpleHtmlRenderer", biographyHtml)],
                !.work = [display |-> B(Len(Get(c, "workExperience").v) > 0),
                          title |-> S("Work Experience"),
                          experiences |-> mapped("workExperience", experience)],
                !.studies = [display |-> B(Len(Get(c, "studies").v) > 0),
                             title |-> S("Education"),
                             institutions |-> mapped("studies", institution)],
                !.technical = [display |-> B(Len(Get(c, "skills").v) > 0),
                               title |-> S("Technical Skills"),
                               skills |-> mapped("skills", skillOf)],
                !.languages = [display |-> B(Len(Get(c, "languages").v) > 0),
                               list |-> mapped("languages", languageOf)],
                !.social = [display |-> B(TRUE),
                            links |-> mapped("socialLinks", linkOf)]]

\* getAboutPageContent, from the return of getAboutContentSafe on.
getAboutPageContent(e, strapiContent) ==
    IF Truthy(strapiContent) THEN LiveAbout(e, strapiContent) ELSE staticAbout

(***************************************************************************)
(* src/api/blog.ts : fetchBlogPostsFromStrapi, from the await of fetch()   *)
(* on; src/resources/content.tsx : getBlogPageContent.                     *)
(***************************************************************************)
BlogPostOf(e, item) ==
    LET portrait == Get(item, "portraitCoverImage")
        landscape == Get(item, "landscapeCoverImage")
        tags == Get(item, "tags")
    IN  O([id |-> Get(item, "id"),
           slug |-> Get(item, "slug"),
           metadata |->
              O([title |-> Get(item, "title"),
                 excerpt |-> Get(item, "excerpt"),
                 publishedAt |-> Get(item, "publishedAt"),
                 summary |-> Get(item, "excerpt"),
                 image |-> IF Truthy(portrait)
                           THEN getBestImageUrl(e, portrait, "large") ELSE U,
                 images |-> IF Truthy(landscape)
                            THEN A(<<getBestImageUrl(e, landscape, "large")>>)
                            ELSE A(<<>>),
                 tag |-> IF tags.t = "array" /\ Len(tags.v) > 0
                         THEN S(Str(tags.v[1])) ELSE U,
                 team |-> A(<<>>),
                 link |-> U,
                 readingTime |-> Get(item, "readingTime")]),
           excerpt |-> Get(item, "excerpt"),
           content |-> OrElse(Get(item, "content"), S("")),
           createdAt |-> Get(item, "createdAt"),
           updatedAt |-> Get(item, "updatedAt"),
           publishedAt |-> Get(item, "publishedAt")])

fetchBlogPostsAfterFetch(e, outcome) ==
    IF outcome.kind = "network" THEN Throw("FetchError")
    ELSE IF ~ResponseOk(outcome) THEN Throw("HttpError")
    ELSE IF outcome.body.t = "unparseable" THEN Throw("SyntaxError")
    ELSE IF Nullish(outcome.body) THEN Throw("TypeError")
    ELSE IF NotMappable(Get(outcome.body, "data")) THEN Throw("TypeError")
    ELSE LET data == Get(outcome.body, "data")
         IN  A([i \in DOMAIN data.v |-> BlogPostOf(e, data.v[i])])

\* getBlogPageContent: try { return await getBlogPosts() } catch { return [] }
getBlogPageContent(posts) == IF IsThrow(posts) THEN A(<<>>) ELSE posts

(***************************************************************************)
(* The responses the model lets the CMS give.  A complete body of each     *)
(* resource, the same body with one field left out, bodies without a       *)
(* usable data member, and the failures of the transport.                  *)
(***************************************************************************)
FullHome ==
    [headline |-> S("Hello"), hasFeatured |-> B(TRUE), featured |-> S("Launch"),
     subLine |-> S("I build things"), hasCarousel |-> B(TRUE),
     carousel |-> A(<<Image(7, {"thumbnail"})>>), hasNewsletter |-> B(TRUE),
     newsletterTitle |-> S("News"), newsletterDescription |-> S("Weekly")]

FullAbout ==
    [jobTitle |-> S("Engineer"), biography |-> S("Bio"),
     profileImage |-> Image(3, {"large", "thumbnail"}),
     languages |-> A(<<O([name |-> S("English"), level |-> S("C1")])>>),
     socialLinks |-> A(<<O([platform |-> S("GitHub"), url |-> S("https://github.com"),
                            useIcon |-> B(TRUE), cssClass |-> S("github"), icon |-> Null])>>),
     skills |-> A(<<O([name |-> S("TLA+"), level |-> S("expert"), group |-> S("Formal")])>>),
     workExperience |-> A(<<O([company |-> S("Acme"), timeframe |-> S("2020"),
                               role |-> S("Dev"), description |-> S("Built it")])>>),
     studies |-> A(<<O([name |-> S("USAC"), title |-> S("BSc"), timeframe |-> S("2015"),
                        description |-> S("Studied")])>>),
     seo |-> O([metaTitle |-> S("About"), metaDescription |-> S("About Axel")]),
     introductionSectionTitle |-> S("Intro"), experienceSectionTitle |-> S("Work"),
     educationSectionTitle |-> S("School"), technicalSkillsSectionTitle |-> S("Skills")]

FullPost ==
    [id |-> Num(1), slug |-> S("first"), title |-> S("First"), excerpt |-> S("Short"),
     content |-> S("Body"), readingTime |-> Num(2), publishedAt |-> S("2025-01-01"),
     createdAt |-> S("2025-01-01"), updatedAt |-> S("2025-01-02"),
     portraitCoverImage |-> Image(9, {"medium"}), landscapeCoverImage |-> Null,
     tags |-> A(<<>>)]

Body(data) == O([data |-> data, meta |-> O(<<>>)])

\* Failures of the transport and bodies that carry no data member at all.
Failures ==
    {NetworkFailure, Response(500, Unparseable), Response(404, Body(Null)),
     Response(200, Unparseable), Response(200, Null), Response(200, O(<<>>)),
     Response(200, Body(Null))}

HomeOutcomes ==
    Failures
    \cup {Response(200, Body(O(FullHome))), Response(500, Body(O(FullHome)))}
    \cup {Response(200, Body(O(Without(FullHome, f)))) : f \in HomeFields}
    \cup {Response(200, Body(O([FullHome EXCEPT !.hasCarousel = B(FALSE)]))),
          Response(200, Body(O([FullHome EXCEPT !.carousel = S("none")]))),
          Response(200, Body(O([FullHome EXCEPT
                                  !.carousel = A(<<O([url |-> S("/uploads/x.jpg")])>>)])))}

AboutOutcomes ==
    Failures
    \cup {Response(200, Body(O(FullAbout))), Response(500, Body(O(FullAbout)))}
    \cup {Response(200, Body(O(Without(FullAbout, f)))) : f \in AboutFields}
    \cup {Response(200, Body(O([FullAbout EXCEPT !.workExperience = A(<<>>)])))}

BlogOutcomes ==
    Failures
    \cup {Response(200, Body(A(<<>>))), Response(200, Body(A(<<O(FullPost)>>))),
          Response(200, Body(A(<<Null>>))),
          Response(200, Body(A(<<O(Without(FullPost, "portraitCoverImage"))>>)))}

(***************************************************************************)
(* The renders.  A render serves one page type; generateMetadata and the   *)
(* page component each invoke the page's resolver once, in either order.   *)
(* An invocation runs to the await of fetch() (or of the cached promise)   *)
(* and is resumed when that settles.                                       *)
(***************************************************************************)
\* The records content.tsx keeps at module level and hands out as fallback.
StaticRecords == [home |-> staticHome, about |-> staticAbout]

Renders == {"r1", "r2"}

Pages == {"home", "about", "blog"}

Callers == {"generateMetadata", "Page"}

\* Resolver invocations over all renders.
MaxCalls == 2

\* The configurations the resolver runs under.
Envs ==
    {MkEnv("", "", "", "", ""),
     MkEnv("http://api", "", "", "", "secret"),
     MkEnv("", "http://pub-api", "http://img", "", "")}

Outcomes(p) ==
    CASE p = "home" -> HomeOutcomes
      [] p = "about" -> AboutOutcomes
      [] p = "blog" -> BlogOutcomes

\* getAboutContent and getBlogPosts are wrapped in React cache(); getHomeContent is not.
Cached(p) == p \in {"about", "blog"}

Unconfigured == [kind |-> "unconfigured"]

NoRequest == [method |-> "none"]

NoReturn == [t |-> "none"]

Empty == [st |-> "empty"]

\* The middleware, the locale route and LocaleProvider have handled nothing.
LocaleIdle ==
    /\ cookie = NoReturn
    /\ request = NoReturn
    /\ response = NoReturn
    /\ redirects = 0
    /\ detected = NoReturn

ProviderIdle ==
    /\ localeState = NoReturn
    /\ storage = NoReturn
    /\ language = NoReturn
    /\ effects = {}
    /\ pending = NoReturn

PostsIdle == blog = NoReturn /\ listings = NoReturn

SiteIdle == LocaleIdle /\ ProviderIdle /\ PostsIdle

Pending == [st |-> "pending"]

Settled(outcome, result) == [st |-> "settled", outcome |-> outcome, result |-> result]

\* process.env.STRAPI_API_URL || process.env.NEXT_PUBLIC_STRAPI_API_URL
ApiUrl(e) == OrElse(EnvVar(e, "STRAPI_API_URL"), EnvVar(e, "NEXT_PUBLIC_STRAPI_API_URL"))

\* The CMS asked for the site's default locale.
localeOfSite == "es"

locale == "en"

Endpoint(p) ==
    CASE p = "home" -> "/api/home?populate=all&locale=" \o locale
      [] p = "about" -> "/api/about?populate=*&locale=" \o locale
      [] p = "blog" -> "/api/posts?populate=*&locale=" \o locale

\* The argument of fetch().
RequestOf(e, p) ==
    [method |-> "GET", url |-> Str(ApiUrl(e)) \o Endpoint(p),
     headers |-> ("Content-Type" :> "application/json")]

\* What the Strapi fetch function of page p settles with.
FetchResult(e, p, outcome) ==
    IF outcome.kind = "unconfigured" THEN Throw("ConfigurationMissing")
    ELSE CASE p = "home" -> getHomeContentAfterFetch(outcome)
           [] p = "about" -> getAboutContentAfterFetch(outcome)
           [] p = "blog" -> fetchBlogPostsAfterFetch(e, outcome)

\* What the page resolver hands to its caller, given that result.
Resolve(e, p, result) ==
    CASE p = "home" -> getHomePageContent(e, Safe(result))
      [] p = "about" -> getAboutPageContent(e, Safe(result))
      [] p = "blog" -> getBlogPageContent(result)

\* src/unnamed/part_011 : About.  The component awaits getAboutPageContent and
\* returns the spinner while about.loading, the page sections otherwise.
About(about) ==
    IF IsThrow(about) THEN "error"
    ELSE IF Truthy(about.loading) THEN "spinner"
    ELSE "sections"

\* Mutant: one cache entry per page type for all renders.
SharedCacheOf(r) == IF route[r] = "about" THEN cacheAbout["r1"] ELSE cacheBlog["r1"]

CacheOf(r) == IF route[r] = "about" THEN cacheAbout[r] ELSE cacheBlog[r]

SetCache(r, entry) ==
    /\ cacheAbout' = IF route[r] = "about" THEN [cacheAbout EXCEPT ![r] = entry]
                     ELSE cacheAbout
    /\ cacheBlog' = IF route[r] = "blog" THEN [cacheBlog EXCEPT ![r] = entry]
                    ELSE cacheBlog

Idle == [pc |-> "idle", nreq |-> 0]

\* Invocations made so far, over all renders.
Calls == Cardinality({rc \in Renders \X Callers : inv[rc[1]][rc[2]].pc # "idle"})

\* The resolver returns (or raises) to its caller.
Return(r, caller, outcome, result) ==
    LET value == Resolve(env, route[r], result)
    IN  /\ ret' = [t |-> "return", render |-> r, page |-> route[r],
                   outcome |-> outcome, value |-> value]
        /\ shown' = IF route[r] = "about" /\ caller = "Page"
                    THEN [shown EXCEPT ![r] = About(value)]
                    ELSE shown

Init ==
    /\ env \in Envs
    /\ route \in [Renders -> Pages]
    /\ inv = [r \in Renders |-> [c \in Callers |-> Idle]]
    /\ cacheAbout = [r \in Renders |-> Empty]
    /\ cacheBlog = [r \in Renders |-> Empty]
    /\ sent = [r \in Renders |-> 0]
    /\ lastReq = NoRequest
    /\ ret = NoReturn
    /\ shown = [r \in Renders |-> "nothing"]
    /\ statics = StaticRecords
    /\ imgIn = NoReturn
    /\ imgOut = NoReturn
    /\ html = NoReturn
    /\ rendered = NoReturn
    /\ skills = NoReturn
    /\ bars = NoReturn
    /\ SiteIdle

\* A caller invokes the page resolver of render r: the call runs through
\* get*PageContent, get*ContentSafe and the fetch function up to its first await.
Invoke(r, caller) ==
    /\ Calls < MaxCalls
    /\ inv[r][caller].pc = "idle"
    /\ UNCHANGED <<env, route, statics, imgIn, imgOut>>
    /\ UNCHANGED rendererVars
    /\ UNCHANGED siteVars
    /\ IF Cached(route[r]) /\ CacheOf(r).st = "pending"
       THEN \* cache() hands out the promise in flight
            /\ inv' = [inv EXCEPT ![r][caller] = [pc |-> "wait", nreq |-> 0]]
            /\ UNCHANGED <<cacheAbout, cacheBlog, sent, lastReq, ret, shown>>
       ELSE IF Cached(route[r]) /\ CacheOf(r).st = "settled"
       THEN \* cache() hands out the settled promise
            /\ inv' = [inv EXCEPT ![r][caller] = [pc |-> "done", nreq |-> 0]]
            /\ Return(r, caller, CacheOf(r).outcome, CacheOf(r).result)
            /\ UNCHANGED <<cacheAbout, cacheBlog, sent, lastReq>>
       ELSE IF ~Truthy(ApiUrl(env))
       THEN \* throw new Error("Missing STRAPI_API_URL ...") before any fetch
            /\ inv' = [inv EXCEPT ![r][caller] = [pc |-> "done", nreq |-> 0]]
            /\ Return(r, caller, Unconfigured, FetchResult(env, route[r], Unconfigured))
            /\ IF Cached(route[r])
               THEN SetCache(r, Settled(Unconfigured, FetchResult(env, route[r], Unconfigured)))
               ELSE UNCHANGED <<cacheAbout, cacheBlog>>
            /\ UNCHANGED <<sent, lastReq>>
       ELSE \* await fetch(...)
            /\ inv' = [inv EXCEPT ![r][caller] = [pc |-> "fetch", nreq |-> 1]]
            /\ lastReq' = RequestOf(env, route[r])
            /\ sent' = [sent EXCEPT ![r] = @ + 1]
            /\ IF Cached(route[r]) THEN SetCache(r, Pending)
               ELSE UNCHANGED <<cacheAbout, cacheBlog>>
            /\ UNCHANGED <<ret, shown>>

\* Mutant: a fetch that failed is sent once more before the call gives up.
RespondRetries(r, caller, outcome) ==
    /\ inv[r][caller].pc = "fetch"
    /\ outcome \in Outcomes(route[r])
    /\ UNCHANGED <<env, route, statics, imgIn, imgOut>>
    /\ UNCHANGED rendererVars
    /\ UNCHANGED siteVars
    /\ IF IsThrow(FetchResult(env, route[r], outcome)) /\ inv[r][caller].nreq < 2
       THEN /\ inv' = [inv EXCEPT ![r][caller].nreq = @ + 1]
            /\ lastReq' = RequestOf(env, route[r])
            /\ sent' = [sent EXCEPT ![r] = @ + 1]
            /\ UNCHANGED <<cacheAbout, cacheBlog, ret, shown>>
       ELSE /\ inv' = [inv EXCEPT ![r][caller].pc = "done"]
            /\ Return(r, caller, outcome, FetchResult(env, route[r], outcome))
            /\ IF Cached(route[r])
               THEN SetCache(r, Settled(outcome, FetchResult(env, route[r], outcome)))
               ELSE UNCHANGED <<cacheAbout, cacheBlog>>
            /\ UNCHANGED <<sent, lastReq>>

\* The fetch of an invocation settles with the given outcome and the
\* invocation runs to its end: no second request is made.
Respond(r, caller, outcome) ==
    /\ inv[r][caller].pc = "fetch"
    /\ outcome \in Outcomes(route[r])
    /\ inv' = [inv EXCEPT ![r][caller].pc = "done"]
    /\ Return(r, caller, outcome, FetchResult(env, route[r], outcome))
    /\ IF Cached(route[r])
       THEN SetCache(r, Settled(outcome, FetchResult(env, route[r], outcome)))
       ELSE UNCHANGED <<cacheAbout, cacheBlog>>
    /\ UNCHANGED <<env, route, statics, sent, lastReq, imgIn, imgOut>>
    /\ UNCHANGED rendererVars
    /\ UNCHANGED siteVars

\* An invocation that awaits the cached promise is resumed once it has settled.
Resume(r, caller) ==
    /\ inv[r][caller].pc = "wait"
    /\ CacheOf(r).st = "settled"
    /\ inv' = [inv EXCEPT ![r][caller].pc = "done"]
    /\ Return(r, caller, CacheOf(r).outcome, CacheOf(r).result)
    /\ UNCHANGED <<env, route, statics, cacheAbout, cacheBlog, sent, lastReq, imgIn, imgOut>>
    /\ UNCHANGED rendererVars
    /\ UNCHANGED siteVars

Next ==
    \/ \E r \in Renders, caller \in Callers : Invoke(r, caller)
    \/ \E r \in Renders, caller \in Callers :
          \E outcome \in Outcomes(route[r]) : Respond(r, caller, outcome)
    \/ \E r \in Renders, caller \in Callers : Resume(r, caller)

Spec == Init /\ [][Next]_vars

(***************************************************************************)
(* getBestImageUrl on its own: every combination of size variants, with    *)
(* and without a formats member, each preferred size, each configuration.  *)
(***************************************************************************)
Sizes == {"thumbnail", "small", "medium", "large"}

Images ==
    {Image(1, sizes) : sizes \in SUBSET Sizes}
    \cup {O([id |-> Num(1), url |-> S("/uploads/orig.jpg")]),
          O([id |-> Num(1), url |-> S("/uploads/orig.jpg"), formats |-> Null])}

ImageEnvs ==
    {MkEnv("", "", "", "", ""), MkEnv("http://api", "", "", "", ""),
     MkEnv("http://api", "", "", "http://pub-img", "")}

InitImage ==
    /\ env \in ImageEnvs
    /\ route = [r \in Renders |-> "home"]
    /\ inv = [r \in Renders |-> [c \in Callers |-> Idle]]
    /\ cacheAbout = [r \in Renders |-> Empty]
    /\ cacheBlog = [r \in Renders |-> Empty]
    /\ sent = [r \in Renders |-> 0]
    /\ lastReq = NoRequest
    /\ ret = NoReturn
    /\ shown = [r \in Renders |-> "nothing"]
    /\ statics = StaticRecords
    /\ imgIn \in [image : Images, preferredSize : Sizes]
    /\ imgOut = NoReturn
    /\ html = NoReturn
    /\ rendered = NoReturn
    /\ skills = NoReturn
    /\ bars = NoReturn
    /\ SiteIdle

CallBestImageUrl ==
    /\ imgOut = NoReturn
    /\ imgOut' = getBestImageUrl(env, imgIn.image, imgIn.preferredSize)
    /\ UNCHANGED <<env, imgIn>>
    /\ UNCHANGED rendererVars
    /\ UNCHANGED resolverVars
    /\ UNCHANGED siteVars

NextImage == CallBestImageUrl

SpecImage == InitImage /\ [][NextImage]_vars

(***************************************************************************)
(* Properties of the content resolver.                                     *)
(***************************************************************************)
Returned == ret.t = "return"

StaticOf(p) == IF p = "home" THEN staticHome ELSE staticAbout

FieldsOf(p) == IF p = "home" THEN HomeFields ELSE AboutFields

\* The request ended in a network error, a timeout or a non-2xx status.
TransportFailed(outcome) ==
    \/ outcome.kind = "network"
    \/ outcome.kind = "response" /\ ~ResponseOk(outcome)

\* A 2xx response whose JSON body has a data object.
HasData(outcome) ==
    /\ outcome.kind = "response"
    /\ ResponseOk(outcome)
    /\ outcome.body.t = "object"
    /\ Get(outcome.body, "data").t = "object"

\* A 2xx response whose data object lacks one of the page's fields.
MissesField(p, outcome) ==
    /\ HasData(outcome)
    /\ \E f \in FieldsOf(p) : Get(Get(outcome.body, "data"), f).t = "undefined"

\* The fields of a page view-model, one by one.
ViewModelFields(p, vm) ==
    IF p = "home"
    THEN <<vm.path, vm.image, vm.label, vm.title, vm.description, vm.loading,
           vm.headline, vm.featured.display, vm.featured.title, vm.featured.href,
           vm.subline, vm.carousel.display, vm.carousel.images,
           vm.newsletter.display, vm.newsletter.title, vm.newsletter.description>>
    ELSE <<vm.path, vm.label, vm.title, vm.description, vm.loading,
           vm.tableOfContent.display, vm.tableOfContent.subItems,
           vm.tableOfContent.IntroductionTitle, vm.tableOfContent.ExperienceTitle,
           vm.tableOfContent.EducationTitle, vm.tableOfContent.TechnicalSkillsTitle,
           vm.avatar.display, vm.avatar.image, vm.avatar.alt,
           vm.calendar.display, vm.calendar.link,
           vm.intro.display, vm.intro.title, vm.intro.description,
           vm.work.display, vm.work.title, vm.work.experiences,
           vm.studies.display, vm.studies.title, vm.studies.institutions,
           vm.technical.display, vm.technical.title, vm.technical.skills,
           vm.languages.display, vm.languages.list,
           vm.social.display, vm.social.links>>

\* C1: for every page type and every outcome of the CMS call, the page
\* resolver returns a value and never raises to its caller.
C1_ResolverNeverRaises == Returned => ~IsThrow(ret.value)

\* C2: when the CMS request of the home or about page ends in a non-2xx
\* status or in a network error, the returned view-model is the page's
\* static default record, field for field.
C2_TransportFailureYieldsStatic ==
    (Returned /\ ret.page \in {"home", "about"} /\ TransportFailed(ret.outcome))
        => ret.value = StaticOf(ret.page)

C2_Witness ==
    /\ Returned
    /\ ret.page = "about"
    /\ ret.outcome.kind = "response"
    /\ ret.outcome.status = 500
    /\ ret.value = staticAbout

\* C3: when the CMS answers 2xx with a body in which a field of the page is
\* missing, the resolver returns the page's static default view-model.
C3_MissingFieldYieldsStatic ==
    (Returned /\ ret.page \in {"home", "about"} /\ MissesField(ret.page, ret.outcome))
        => ret.value = StaticOf(ret.page)

\* C4: in every view-model returned for the home or about page, every field
\* has a defined value.
C4_EveryFieldDefined ==
    (Returned /\ ret.page \in {"home", "about"} /\ ~IsThrow(ret.value))
        => \A i \in DOMAIN ViewModelFields(ret.page, ret.value) :
               ViewModelFields(ret.page, ret.value)[i].t # "undefined"

\* C5: whatever the outcome of the CMS fetch, the About component renders
\* the page sections: never an error state, never the loading placeholder.
C5_PageAlwaysRendersSections ==
    \A r \in Renders : shown[r] \in {"nothing", "sections"}

\* C6: within one render at most one HTTP request is sent to the CMS for the
\* render's page type, however often the resolver is invoked.
C6_OneRequestPerRender == \A r \in Renders : sent[r] <= 1

\* C7: an invocation of getHomeContentSafe or getAboutContentSafe issues at
\* most one HTTP request, a failed request is not retried, and without a
\* configured base URL no request is sent at all.
C7_AtMostOneRequestPerInvocation ==
    \A r \in Renders :
        route[r] \in {"home", "about"} =>
            /\ \A c \in Callers : inv[r][c].nreq <= 1
            /\ sent[r] = inv[r]["generateMetadata"].nreq + inv[r]["Page"].nreq
            /\ ~Truthy(ApiUrl(env)) => (sent[r] = 0 /\ lastReq = NoRequest)
            /\ \A c \in Callers :
                 (inv[r][c].pc = "done" /\ ~Truthy(ApiUrl(env)) /\ Returned /\ ret.render = r)
                     => ret.value = StaticOf(route[r])

C7_Witness ==
    \E r \in Renders :
        /\ route[r] = "home"
        /\ inv[r]["Page"].pc = "done"
        /\ inv[r]["Page"].nreq = 1
        /\ sent[r] = 1
        /\ Returned
        /\ ret.render = r
        /\ ret.outcome.kind = "network"
        /\ ret.value = staticHome

\* C8: every request sent to the CMS carries the configured API token as
\* bearer authorization.
C8_RequestsCarryBearerToken ==
    (lastReq.method # "none" /\ env.STRAPI_API_TOKEN # "") =>
        /\ "Authorization" \in DOMAIN lastReq.headers
        /\ lastReq.headers["Authorization"] = "Bearer " \o env.STRAPI_API_TOKEN

\* The Strapi fetch function returned content: a 2xx response whose parsed
\* body has a data member that is neither null nor missing.
FetchSucceeded(outcome) ==
    /\ outcome.kind = "response"
    /\ ResponseOk(outcome)
    /\ outcome.body.t = "object"
    /\ ~Nullish(Get(outcome.body, "data"))

\* C9: a returned home or about view-model has loading=false exactly when
\* its content comes from a successful CMS fetch, and loading=true exactly
\* when it is the static default.
C9_LoadingMarksSource ==
    (Returned /\ ret.page \in {"home", "about"} /\ ~IsThrow(ret.value)) =>
        /\ ret.value.loading = B(FALSE) <=> FetchSucceeded(ret.outcome)
        /\ ret.value.loading = B(TRUE) <=> ret.value = StaticOf(ret.page)

C9_Witness ==
    /\ Returned
    /\ ret.page = "home"
    /\ FetchSucceeded(ret.outcome)
    /\ ~IsThrow(ret.value)
    /\ ret.value.loading = B(FALSE)
    /\ ret.value # staticHome

(***************************************************************************)
(* Properties of getBestImageUrl.                                          *)
(***************************************************************************)
Rank == [large |-> 1, medium |-> 2, small |-> 3, thumbnail |-> 4]

Present(image) == {z \in Sizes : Truthy(FormatOf(image, z))}

VariantUrl(image, z) == Get(FormatOf(image, z), "url")

\* C10: getBestImageUrl yields the URL of the preferred variant when it is
\* present, else of the first present variant in the order large, medium,
\* small, thumbnail, else the original URL.
C10_BestImageUrlFollowsOrder ==
    imgOut # NoReturn =>
        LET image == imgIn.image
            present == Present(image)
            best == CHOOSE z \in present : \A y \in present : Rank[z] <= Rank[y]
        IN  imgOut =
              getStrapiImageUrl(env,
                IF imgIn.preferredSize \in present
                THEN VariantUrl(image, imgIn.preferredSize)
                ELSE IF present # {} THEN VariantUrl(image, best)
                ELSE Get(image, "url"))

C10_Witness ==
    /\ imgOut # NoReturn
    /\ Present(imgIn.image) = {"thumbnail"}
    /\ imgIn.preferredSize = "large"
    /\ imgOut = getStrapiImageUrl(env, S("/uploads/thumbnail.jpg"))
    /\ imgOut # getStrapiImageUrl(env, S("/uploads/orig.jpg"))

(***************************************************************************)
(* The HTML renderer components (SimpleHtmlRenderer, EnhancedHtmlRenderer).*)
(* A JavaScript string the renderers scan is a sequence of one-character   *)
(* strings, so that the regular expressions of the source are modelled     *)
(* character by character.                                                 *)
(***************************************************************************)
\* The characters \s matches, as far as the fragments hold them.
Whitespace == {" ", "\n"}

\* The tag names the regular expressions of the renderers spell out.
TagName ==
    [strong |-> <<"s", "t", "r", "o", "n", "g">>, em |-> <<"e", "m">>,
     code |-> <<"c", "o", "d", "e">>, u |-> <<"u">>, b |-> <<"b">>,
     i |-> <<"i">>, p |-> <<"p">>, ul |-> <<"u", "l">>,
     ol |-> <<"o", "l">>, li |-> <<"l", "i">>]

\* "<name>"
Open(name) == <<"<">> \o TagName[name] \o <<">">>

\* "</name>"
Close(name) == <<"<", "/">> \o TagName[name] \o <<">">>

\* pat occurs in str at position i (positions count from 1).
OccursAt(str, pat, i) ==
    /\ i >= 1
    /\ i + Len(pat) - 1 <= Len(str)
    /\ \A k \in 1..Len(pat) : str[i + k - 1] = pat[k]

\* str.slice(i - 1)
SliceFrom(str, i) == SubSeq(str, i, Len(str))

\* The leftmost position at or after `from` where one of the patterns
\* occurs, 0 when there is none: where a regular expression that is an
\* alternation of literals matches next.
FirstOf(str, pats, from) ==
    LET hits == {i \in from..Len(str) : \E pat \in pats : OccursAt(str, pat, i)}
    IN  IF hits = {} THEN 0 ELSE CHOOSE i \in hits : \A j \in hits : i <= j

\* The literal that matched at position i.
MatchedAt(str, pats, i) == CHOOSE pat \in pats : OccursAt(str, pat, i)

RECURSIVE trimStart(_)
trimStart(str) ==
    IF str # <<>> /\ Head(str) \in Whitespace THEN trimStart(Tail(str)) ELSE str

RECURSIVE trimEnd(_)
trimEnd(str) ==
    IF str # <<>> /\ str[Len(str)] \in Whitespace
    THEN trimEnd(SubSeq(str, 1, Len(str) - 1))
    ELSE str

\* str.trim()
trim(str) == trimEnd(trimStart(str))

\* str.replace(/pats/g, ""): every match, scanning left to right once.
RECURSIVE removeAll(_, _)
removeAll(str, pats) ==
    LET i == FirstOf(str, pats, 1)
    IN  IF i = 0 THEN str
        ELSE SubSeq(str, 1, i - 1)
             \o removeAll(SliceFrom(str, i + Len(MatchedAt(str, pats, i))), pats)

\* str.split(/(pats)/g): the pieces between the matches, with each match
\* (the capture group) in between.
RECURSIVE split(_, _)
split(str, pats) ==
    LET i == FirstOf(str, pats, 1)
    IN  IF i = 0 THEN <<str>>
        ELSE LET pat == MatchedAt(str, pats, i)
             IN  <<SubSeq(str, 1, i - 1), pat>>
                 \o split(SliceFrom(str, i + Len(pat)), pats)

(***************************************************************************)
(* React nodes.  A child is a text, an element or an array of children.    *)
(* An element carries its type, its key and its props (attributes) as a    *)
(* set of <<name, value>> pairs.  A key `${a}-${b}-suffix` keeps the parts *)
(* the template literal joins: a prefix word, the text interpolated from a *)
(* string, the numbers, a suffix word.                                     *)
(***************************************************************************)
Txt(str) == [t |-> "text", v |-> str]

Key(prefix, text, numbers, suffix) ==
    [prefix |-> prefix, text |-> text, numbers |-> numbers, suffix |-> suffix]

NoKey == Key("", <<>>, <<>>, "")

Element(type, key, props, children) ==
    [t |-> "element", type |-> type, key |-> key, props |-> props,
     children |-> children]

\* className={className}
ClassProps(className) == {<<"className", className>>}

\* The format each tag of the basic vocabulary opens or closes.
SimpleFormats == [strong |-> "strong", em |-> "em", code |-> "code", u |-> "u"]

\* The same for the extended vocabulary: <b> is strong, <i> is em.
EnhancedFormats ==
    [strong |-> "strong", b |-> "strong", em |-> "em", i |-> "em",
     code |-> "code", u |-> "u"]

\* Delimiters that leave the close tags out.
OpenTagsOnly(formats) == {Open(n) : n \in DOMAIN formats}

\* The delimiters of the inline split.
InlineTags(formats) ==
    {Open(n) : n \in DOMAIN formats} \cup {Close(n) : n \in DOMAIN formats}

\* for (const format of formats) element = <format>{element}</format>
RECURSIVE ApplyFormats(_, _, _)
ApplyFormats(element, formats, numbers) ==
    IF formats = <<>> THEN element
    ELSE ApplyFormats(
             Element(Head(formats), Key("", <<>>, numbers, Head(formats)), {},
                     element),
             Tail(formats), numbers)

\* Closing only the innermost open tag of the kind.
CloseInnermost(currentFormatting, format) ==
    LET hits == {j \in 1..Len(currentFormatting) : currentFormatting[j] = format}
    IN  IF hits = {} THEN currentFormatting
        ELSE LET last == CHOOSE j \in hits : \A h \in hits : h <= j
             IN  SubSeq(currentFormatting, 1, last - 1)
                 \o SubSeq(currentFormatting, last + 1, Len(currentFormatting))

\* currentFormatting.filter((f) => f !== format)
CloseFormat(currentFormatting, format) ==
    SelectSeq(currentFormatting, LAMBDA f : f # format)

\* The loop over the parts of a block, from part i (counted from 0) on.
RECURSIVE FormatLoop(_, _, _, _, _, _)
FormatLoop(parts, i, currentFormatting, elements, keyPrefix, formats) ==
    IF i >= Len(parts) THEN elements
    ELSE
        LET part == parts[i + 1]
            opened == {n \in DOMAIN formats : part = Open(n)}
            closed == {n \in DOMAIN formats : part = Close(n)}
        IN  IF opened # {}
            THEN FormatLoop(parts, i + 1,
                     Append(currentFormatting, formats[CHOOSE n \in opened : TRUE]),
                     elements, keyPrefix, formats)
            ELSE IF closed # {}
            THEN FormatLoop(parts, i + 1,
                     CloseFormat(currentFormatting,
                                 formats[CHOOSE n \in closed : TRUE]),
                     elements, keyPrefix, formats)
            ELSE IF part # <<>> /\ Head(part) # "<"
            THEN FormatLoop(parts, i + 1, currentFormatting,
                     Append(elements,
                         Element("span", Key("", <<>>, <<keyPrefix, i>>, ""), {},
                             ApplyFormats(Txt(part), currentFormatting,
                                          <<keyPrefix, i>>))),
                     keyPrefix, formats)
            ELSE FormatLoop(parts, i + 1, currentFormatting, elements,
                            keyPrefix, formats)

\* parseInlineContent of SimpleHtmlRenderer.
parseInlineContent(content, keyPrefix) ==
    LET parts == split(content, InlineTags(SimpleFormats))
        elements == FormatLoop(parts, 0, <<>>, <<>>, keyPrefix, SimpleFormats)
    IN  IF Len(elements) = 1 THEN elements[1] ELSE A(elements)



\* /<(ul|ol)>([\s\S]*?)<\/(ul|ol)>/g .exec(html) with lastIndex = from - 1.
ExecListRegex(str, from) ==
    LET opens == {Open("ul"), Open("ol")}
        closes == {Close("ul"), Close("ol")}
        starts == {i \in from..Len(str) :
                      /\ \E o \in opens : OccursAt(str, o, i)
                      /\ FirstOf(str, closes, i + 4) # 0}
    IN  IF starts = {} THEN Null
        ELSE LET i == CHOOSE s \in starts : \A s2 \in starts : s <= s2
                 j == FirstOf(str, closes, i + 4)
             IN  [t |-> "match", index |-> i,
                  fullMatch |-> SubSeq(str, i, j + 4),
                  listType |-> IF OccursAt(str, Open("ol"), i) THEN "ol" ELSE "ul",
                  listContent |-> SubSeq(str, i + 4, j - 1)]

\* listContent.match(/<li>([\s\S]*?)<\/li>/) || [], without the g flag: the
\* first match and its capture group.
MatchFirstItem(listContent) ==
    LET i == FirstOf(listContent, {Open("li")}, 1)
        j == IF i = 0 THEN 0 ELSE FirstOf(listContent, {Close("li")}, i + 4)
    IN  IF j = 0 THEN <<>>
        ELSE <<SubSeq(listContent, i, j + 4), SubSeq(listContent, i + 4, j - 1)>>

\* listContent.match(/<li>([\s\S]*?)<\/li>/g) || []
RECURSIVE MatchItems(_)
MatchItems(listContent) ==
    LET starts == {i \in 1..Len(listContent) :
                      /\ OccursAt(listContent, Open("li"), i)
                      /\ FirstOf(listContent, {Close("li")}, i + 4) # 0}
    IN  IF starts = {} THEN <<>>
        ELSE LET i == CHOOSE s \in starts : \A s2 \in starts : s <= s2
                 j == FirstOf(listContent, {Close("li")}, i + 4)
             IN  <<SubSeq(listContent, i, j + 4)>>
                 \o MatchItems(SliceFrom(listContent, j + 5))

\* listItems.map((item, index) => <li>...</li>)
ParsedItems(listItems, length) ==
    [index \in 1..Len(listItems) |->
        LET content == trim(removeAll(listItems[index], {Open("li"), Close("li")}))
        IN  Element("li", Key("li", <<>>, <<length, index - 1>>, ""), {},
                    parseInlineContent(content, index - 1))]

\* The while loop of handleLists and what follows it, with currentIndex
\* the position of the first character not yet consumed.
RECURSIVE ListLoop(_, _, _)
ListLoop(str, currentIndex, elements) ==
    LET match == ExecListRegex(str, currentIndex)
    IN  IF match.t = "match"
        THEN
            LET beforeContent == SubSeq(str, currentIndex, match.index - 1)
                withBefore ==
                    IF match.index > currentIndex /\ trim(beforeContent) # <<>>
                    THEN Append(elements,
                             parseInlineContent(beforeContent, Len(elements)))
                    ELSE elements
                parsedItems ==
                    ParsedItems(MatchItems(match.listContent), Len(withBefore))
                list == Element(match.listType,
                                Key("list", <<>>, <<Len(withBefore)>>, ""), {},
                                A(parsedItems))
            IN  ListLoop(str, match.index + Len(match.fullMatch),
                         Append(withBefore, list))
        ELSE
            LET remainingContent == SliceFrom(str, currentIndex)
                withRest ==
                    IF currentIndex <= Len(str) /\ trim(remainingContent) # <<>>
                    THEN Append(elements,
                             parseInlineContent(remainingContent, Len(elements)))
                    ELSE elements
            IN  IF Len(withRest) = 0
                THEN <<parseInlineContent(str, 0)>>
                ELSE withRest

handleLists(str) == ListLoop(str, 1, <<>>)

parseSimpleHtml(htmlString) ==
    handleLists(trim(removeAll(htmlString, {Open("p"), Close("p")})))

\* SafeHtmlRenderer: the fragment handed to dangerouslySetInnerHTML.
SafeHtmlRenderer(props) ==
    Element("div", NoKey,
            ClassProps(props.className)
                \cup {<<"dangerouslySetInnerHTML", props.html>>},
            A(<<>>))

SimpleHtmlRenderer(props) ==
    Element("div", NoKey, ClassProps(props.className),
            A(parseSimpleHtml(props.html)))

\* The first position at or after i that holds no whitespace (\s*).
RECURSIVE SkipWhitespace(_, _)
SkipWhitespace(str, i) ==
    IF i <= Len(str) /\ str[i] \in Whitespace
    THEN SkipWhitespace(str, i + 1)
    ELSE i

\* "<p" [^>]* ">" at position i: the position of its ">", 0 when no match.
OpenParagraphEnd(str, i) ==
    IF OccursAt(str, <<"<", "p">>, i) THEN FirstOf(str, {<<">">>}, i + 2) ELSE 0

\* /<\/p>\s*<p[^>]*>/ at position i: the position of the last character
\* of the match, 0 when there is no match at i.
ParagraphBreakEnd(str, i) ==
    IF OccursAt(str, Close("p"), i)
    THEN OpenParagraphEnd(str, SkipWhitespace(str, i + 4))
    ELSE 0

\* cleanHtml.split(/<\/p>\s*<p[^>]*>/g)
RECURSIVE SplitParagraphs(_)
SplitParagraphs(str) ==
    LET breaks == {i \in 1..Len(str) : ParagraphBreakEnd(str, i) # 0}
    IN  IF breaks = {} THEN <<str>>
        ELSE LET i == CHOOSE b \in breaks : \A b2 \in breaks : b <= b2
             IN  <<SubSeq(str, 1, i - 1)>>
                 \o SplitParagraphs(SliceFrom(str, ParagraphBreakEnd(str, i) + 1))

\* paragraph.replace(/^<p[^>]*>|<\/p>$/g, "")
StripParagraphTags(paragraph) ==
    LET rest == SliceFrom(paragraph, OpenParagraphEnd(paragraph, 1) + 1)
    IN  IF OccursAt(rest, Close("p"), Len(rest) - 3)
        THEN SubSeq(rest, 1, Len(rest) - 4)
        ELSE rest

\* The callback of paragraphs.map: a <p> element, or null.
ParagraphNode(paragraph, index) ==
    LET cleanParagraph == trim(StripParagraphTags(paragraph))
        parts == split(cleanParagraph, InlineTags(EnhancedFormats))
        elements == FormatLoop(parts, 0, <<>>, <<>>, index, EnhancedFormats)
        paragraphKey ==
            Key("paragraph", SubSeq(paragraph, 1, IF Len(paragraph) < 20
                                                  THEN Len(paragraph) ELSE 20),
                <<index>>, "")
    IN  IF cleanParagraph = <<>> THEN Null
        ELSE IF Len(elements) > 0
             THEN Element("p", paragraphKey, {}, A(elements))
             ELSE Null

\* parseHtml without its .filter(Boolean).
ParseHtmlKeepsNull(htmlString) ==
    LET paragraphs == SplitParagraphs(trim(htmlString))
    IN  [index \in 1..Len(paragraphs) |->
            ParagraphNode(paragraphs[index], index - 1)]

\* parseHtml of EnhancedHtmlRenderer: .map(...).filter(Boolean)
parseHtml(htmlString) ==
    LET paragraphs == SplitParagraphs(trim(htmlString))
        nodes == [index \in 1..Len(paragraphs) |->
                     ParagraphNode(paragraphs[index], index - 1)]
    IN  SelectSeq(nodes, LAMBDA node : node.t # "null")

EnhancedHtmlRenderer(props) ==
    Element("div", NoKey, ClassProps(props.className), A(parseHtml(props.html)))

(***************************************************************************)
(* The renderer components on their own: the fragments handed to them and  *)
(* one action per component.                                               *)
(***************************************************************************)
MaxPieces == 3

MaxItems == 2

\* Concat(<<s1, ..., sn>>) = s1 \o ... \o sn
RECURSIVE Concat(_)
Concat(strs) == IF strs = <<>> THEN <<>> ELSE Head(strs) \o Concat(Tail(strs))

\* The pieces free-form fragments are put together from: tags of the
\* vocabulary, text, whitespace, and markup outside the vocabulary.
Pieces ==
    {Open("strong"), Close("strong"), Open("em"), Close("em"),
     Open("p"), Close("p"),
     <<"a">>, <<" ">>, <<"<">>, <<"<", "s", "p", "a", "n", ">">>}

FreeForm ==
    UNION {{Concat(ps) : ps \in [1..n -> Pieces]} : n \in 0..MaxPieces}

Texts == {<<>>, <<"x">>}

\* One tag inside another, with text before, inside and after the inner one.
Nested ==
    {Open(k1) \o t1 \o Open(k2) \o t2 \o Close(k2) \o t3 \o Close(k1) :
        k1 \in DOMAIN EnhancedFormats, k2 \in DOMAIN EnhancedFormats,
        t1 \in Texts, t2 \in Texts, t3 \in Texts}

\* What a paragraph holds.
Blocks ==
    {<<>>, <<" ">>, <<"a">>, <<"b">>, Open("strong") \o <<"a">>,
     Open("strong") \o <<"a">> \o Close("strong"), Open("em") \o <<"b">>,
     <<"a", " ">> \o Open("strong") \o <<"b">> \o Close("strong") \o <<" ", "c">>}

\* One paragraph, or two with optional whitespace in between.
Paragraphs ==
    {Open("p") \o x \o Close("p") : x \in Blocks}
    \cup {Open("p") \o x \o Close("p") \o ws \o Open("p") \o y \o Close("p") :
            x \in Blocks, y \in Blocks, ws \in {<<>>, <<"\n">>}}

ItemContents ==
    {<<>>, <<"x">>, <<"y">>, <<" ">> \o Open("em") \o <<"x">> \o Close("em") \o <<" ">>}

Item(content) == Open("li") \o content \o Close("li")

\* A list of up to MaxItems items, with or without text around it.
Lists ==
    {before \o Open(kind) \o Concat([k \in 1..n |-> Item(contents[k])])
            \o Close(kind) \o after :
        before \in {<<>>, <<"a">>}, after \in {<<>>, <<"b">>},
        kind \in {"ul", "ol"},
        n \in 0..MaxItems, contents \in [1..MaxItems -> ItemContents]}

MaxOpen == 3

ClosingKinds == {"strong", "em", "u"}

\* Up to MaxOpen tags opened one after the other, text, one close tag,
\* the closed kind opened again or not, text.
Closings ==
    {Concat([j \in 1..n |-> Open(kinds[j])]) \o <<"x">> \o Close(k)
            \o (IF again THEN Open(k) ELSE <<>>) \o <<"y">> :
        n \in 1..MaxOpen, kinds \in [1..MaxOpen -> ClosingKinds],
        k \in ClosingKinds, again \in BOOLEAN}

Fragments == FreeForm \cup Nested \cup Paragraphs \cup Lists \cup Closings

ClassNames == {"", "prose"}

InitRender ==
    /\ env = MkEnv("", "", "", "", "")
    /\ route = [r \in Renders |-> "home"]
    /\ inv = [r \in Renders |-> [c \in Callers |-> Idle]]
    /\ cacheAbout = [r \in Renders |-> Empty]
    /\ cacheBlog = [r \in Renders |-> Empty]
    /\ sent = [r \in Renders |-> 0]
    /\ lastReq = NoRequest
    /\ ret = NoReturn
    /\ shown = [r \in Renders |-> "nothing"]
    /\ statics = StaticRecords
    /\ imgIn = NoReturn
    /\ imgOut = NoReturn
    /\ html \in [html : Fragments, className : ClassNames]
    /\ rendered = NoReturn
    /\ skills = NoReturn
    /\ bars = NoReturn
    /\ SiteIdle

\* <SimpleHtmlRenderer html={...} className={...} />
RenderSimple ==
    /\ rendered = NoReturn
    /\ rendered' = [component |-> "SimpleHtmlRenderer",
                    element |-> SimpleHtmlRenderer(html)]
    /\ UNCHANGED <<env, imgIn, imgOut, html, skills, bars>>
    /\ UNCHANGED resolverVars
    /\ UNCHANGED siteVars

\* <EnhancedHtmlRenderer html={...} className={...} />
RenderEnhanced ==
    /\ rendered = NoReturn
    /\ rendered' = [component |-> "EnhancedHtmlRenderer",
                    element |-> EnhancedHtmlRenderer(html)]
    /\ UNCHANGED <<env, imgIn, imgOut, html, skills, bars>>
    /\ UNCHANGED resolverVars
    /\ UNCHANGED siteVars

NextRender == RenderSimple \/ RenderEnhanced

SpecRender == InitRender /\ [][NextRender]_vars

(***************************************************************************)
(* Properties of the renderer components.                                  *)
(***************************************************************************)
\* A renderer component has returned.
Rendered(component) ==
    /\ rendered # NoReturn
    /\ rendered.component = component

\* The node sequence the parser of the component produced: the children
\* of the wrapping <div>.
Nodes == rendered.element.children.v

\* The text of a child, flattened in document order.
RECURSIVE TextOf(_)
TextOf(child) ==
    CASE child.t = "text" -> child.v
      [] child.t = "element" -> TextOf(child.children)
      [] child.t = "array" ->
            Concat([k \in 1..Len(child.v) |-> TextOf(child.v[k])])

\* The element nodes of a child, the child included.
RECURSIVE ElementsOf(_)
ElementsOf(child) ==
    CASE child.t = "text" -> {}
      [] child.t = "element" -> {child} \cup ElementsOf(child.children)
      [] child.t = "array" ->
            UNION {ElementsOf(child.v[k]) : k \in 1..Len(child.v)}

\* The text segments of a child in document order, each with the types
\* of the elements around it from the outermost to the innermost.
RECURSIVE SegmentsOf(_, _)
SegmentsOf(child, around) ==
    CASE child.t = "text" -> <<[text |-> child.v, around |-> around]>>
      [] child.t = "element" ->
            SegmentsOf(child.children, Append(around, child.type))
      [] child.t = "array" ->
            Concat([k \in 1..Len(child.v) |-> SegmentsOf(child.v[k], around)])

\* The characters of a string that are no whitespace.
NonWhitespace(str) == SelectSeq(str, LAMBDA c : c \notin Whitespace)

\* The tags a component is said to recognize.
VocabularyTags(component) ==
    LET names == IF component = "SimpleHtmlRenderer"
                 THEN DOMAIN TagName \ {"b", "i"}
                 ELSE DOMAIN TagName
    IN  {Open(n) : n \in names} \cup {Close(n) : n \in names}

SpanTag == <<"<", "s", "p", "a", "n", ">">>

\* C11: when the fragment holds markup outside the vocabulary (<span>),
\* every character of the fragment that lies outside a vocabulary tag is in
\* the output text, in order (whitespace, which trimming may remove,
\* aside).
C11_UnknownMarkupIsLiteralText ==
    (rendered # NoReturn /\ FirstOf(html.html, {SpanTag}, 1) # 0) =>
        NonWhitespace(TextOf(rendered.element))
            = NonWhitespace(removeAll(html.html,
                                      VocabularyTags(rendered.component)))

\* The element types of the fixed vocabulary and of the renderers' own
\* wrappers.
VocabularyTypes == {"strong", "em", "code", "u", "ul", "ol", "li"}

WrapperTypes == {"span", "p", "div"}

\* C12 (as stated): every element node has a type of the vocabulary or is a
\* wrapper, and no node carries an attribute, key or prop, whose value is
\* taken from the html string.
C12_NodesCarryNothingOfInput ==
    rendered # NoReturn =>
        \A node \in ElementsOf(rendered.element) :
            /\ node.type \in VocabularyTypes \cup WrapperTypes
            /\ node.key.text = <<>>
            /\ node.props \subseteq ClassProps(html.className)

\* C12 (amended): every element node has a type of the vocabulary or is a
\* wrapper; the only prop of any node is the className of the <div>, which
\* is the className the component was given; and the only key that holds
\* text of the html string is the key of a <p> of EnhancedHtmlRenderer,
\* which holds at most 20 characters that occur in the html string.
C12_OnlyParagraphKeysHoldInput ==
    rendered # NoReturn =>
        \A node \in ElementsOf(rendered.element) :
            /\ node.type \in VocabularyTypes \cup WrapperTypes
            /\ node.props = IF node.type = "div"
                            THEN ClassProps(html.className)
                            ELSE {}
            /\ node.key.text # <<>> =>
                  /\ node.type = "p"
                  /\ rendered.component = "EnhancedHtmlRenderer"
                  /\ Len(node.key.text) <= 20
                  /\ \E i \in 1..Len(html.html) :
                        OccursAt(html.html, node.key.text, i)

\* EnhancedHtmlRenderer rendered a fragment that holds <span> into a <p>
\* whose key holds text of the fragment.
C12_Witness ==
    /\ Rendered("EnhancedHtmlRenderer")
    /\ FirstOf(html.html, {SpanTag}, 1) # 0
    /\ \E node \in ElementsOf(rendered.element) :
          node.type = "p" /\ node.key.text # <<>>

ParagraphTags == {Open("p"), Close("p")}

\* A string cut at the tags SimpleHtmlRenderer is said to recognize: texts
\* at the odd positions, tags at the even ones.
Tokens(str) == split(str, VocabularyTags("SimpleHtmlRenderer"))

\* Text that holds no markup.
PlainText(str) == \A k \in 1..Len(str) : str[k] \notin {"<", ">"}

\* The formatting tags among the tokens from token k on open and close
\* like brackets, given the kinds open before token k.
RECURSIVE ProperlyNested(_, _, _)
ProperlyNested(tokens, k, open) ==
    IF k > Len(tokens) THEN open = <<>>
    ELSE LET token == tokens[k]
         IN  IF k % 2 = 1 THEN
                 PlainText(token) /\ ProperlyNested(tokens, k + 1, open)
             ELSE IF token \in ParagraphTags THEN
                 ProperlyNested(tokens, k + 1, open)
             ELSE IF \E n \in DOMAIN SimpleFormats : token = Open(n) THEN
                 ProperlyNested(tokens, k + 1,
                     Append(open, CHOOSE n \in DOMAIN SimpleFormats : token = Open(n)))
             ELSE IF \E n \in DOMAIN SimpleFormats : token = Close(n) THEN
                 /\ open # <<>>
                 /\ token = Close(open[Len(open)])
                 /\ ProperlyNested(tokens, k + 1, SubSeq(open, 1, Len(open) - 1))
             ELSE FALSE

\* The texts among properly nested tokens from token k on, each with the
\* kinds of the tags that are open around it, in the order they opened.
RECURSIVE OpenAround(_, _, _)
OpenAround(tokens, k, open) ==
    IF k > Len(tokens) THEN <<>>
    ELSE LET token == tokens[k]
         IN  IF k % 2 = 1 THEN
                 (IF token = <<>> THEN <<>>
                  ELSE <<[text |-> token, open |-> open]>>)
                 \o OpenAround(tokens, k + 1, open)
             ELSE IF \E n \in DOMAIN SimpleFormats : token = Open(n) THEN
                 OpenAround(tokens, k + 1,
                     Append(open, CHOOSE n \in DOMAIN SimpleFormats : token = Open(n)))
             ELSE OpenAround(tokens, k + 1, SubSeq(open, 1, Len(open) - 1))

\* C13: for a fragment of paragraph tags, plain text and properly nested
\* strong/em/code/u tags, the text segments SimpleHtmlRenderer produces are,
\* in order, the texts of the fragment without its paragraph tags and
\* trimmed, and each is wrapped by exactly the kinds of the tags open at
\* its position.
C13_TextAndFormatsPreserved ==
    (Rendered("SimpleHtmlRenderer") /\ ProperlyNested(Tokens(html.html), 1, <<>>)) =>
        LET clean == trim(removeAll(html.html, ParagraphTags))
            expected == OpenAround(Tokens(clean), 1, <<>>)
            actual == SegmentsOf(A(Nodes), <<>>)
        IN  /\ Len(actual) = Len(expected)
            /\ \A k \in 1..Len(actual) :
                  /\ actual[k].text = expected[k].text
                  /\ {actual[k].around[j] : j \in 1..Len(actual[k].around)}
                        \ {"span"}
                     = {expected[k].open[j] : j \in 1..Len(expected[k].open)}

\* The formatting elements around a text segment, outermost first.
FormatsAround(segment) ==
    SelectSeq(segment.around, LAMBDA type : type \in {"strong", "em", "code", "u"})

\* C14: when two or more formatting tags are open at a text segment of a
\* properly nested fragment, the wrappers around the text are nested in
\* the order the tags opened: the first-opened outermost, the last-opened
\* innermost, directly around the text.
C14_LastOpenedIsInnermost ==
    (rendered # NoReturn /\ ProperlyNested(Tokens(html.html), 1, <<>>)) =>
        LET clean == trim(removeAll(html.html, ParagraphTags))
            expected == OpenAround(Tokens(clean), 1, <<>>)
            actual == SegmentsOf(A(Nodes), <<>>)
        IN  Len(actual) = Len(expected) =>
                \A k \in 1..Len(actual) :
                    (/\ actual[k].text = expected[k].text
                     /\ Len(expected[k].open) >= 2) =>
                        FormatsAround(actual[k]) = expected[k].open

\* The fragment is two paragraphs, the second one holding y.
SecondParagraphIs(y) ==
    \E x \in Blocks, ws \in {<<>>, <<"\n">>} :
        html.html = Open("p") \o x \o Close("p") \o ws
                        \o Open("p") \o y \o Close("p")

\* C15: formats do not reach from one block into the next: when the
\* second of two paragraphs is plain text, that text is rendered without
\* formatting wrapper whatever the first paragraph left open.
C15_FormatsEndWithTheirBlock ==
    rendered # NoReturn =>
        \A y \in Blocks :
            (PlainText(y) /\ trim(y) # <<>> /\ SecondParagraphIs(y)) =>
                LET actual == SegmentsOf(A(Nodes), <<>>)
                IN  /\ actual # <<>>
                    /\ FormatsAround(actual[Len(actual)]) = <<>>

\* The text after the close tag the fragment begins with.
AfterClose(kind) == SliceFrom(html.html, Len(Close(kind)) + 1)

\* C16: a fragment that is a close tag of the vocabulary followed by text
\* free of markup renders that text (without the whitespace trimmed off
\* its end) and no formatting wrapper around any of it.
C16_UnmatchedCloseIsIgnored ==
    rendered # NoReturn =>
        \A kind \in DOMAIN SimpleFormats :
            (OccursAt(html.html, Close(kind), 1) /\ PlainText(AfterClose(kind))) =>
                LET actual == SegmentsOf(A(Nodes), <<>>)
                IN  /\ rendered.element.t = "element"
                    /\ TextOf(A(Nodes)) = trimEnd(AfterClose(kind))
                    /\ \A k \in 1..Len(actual) : FormatsAround(actual[k]) = <<>>

\* SimpleHtmlRenderer rendered "</strong>a" as the one bare span of "a".
C16_Witness ==
    /\ Rendered("SimpleHtmlRenderer")
    /\ html.html = Close("strong") \o <<"a">>
    /\ Nodes = <<Element("span", Key("", <<>>, <<0, 2>>, ""), {}, Txt(<<"a">>))>>

\* "<kind><li>c1</li>...<li>cn</li></kind>"
ListOf(kind, contents) ==
    Open(kind) \o Concat([k \in 1..Len(contents) |-> Item(contents[k])])
        \o Close(kind)

\* C17: for a fragment that is one <ul> or <ol> of n <li> items,
\* SimpleHtmlRenderer produces exactly one node, a list of that kind, with
\* exactly n <li> nodes in the order of the fragment, each holding the
\* inline-parsed (trimmed) content of its item.
C17_OneListWithItsItems ==
    Rendered("SimpleHtmlRenderer") =>
        \A kind \in {"ul", "ol"} :
          OccursAt(html.html, Open(kind), 1) =>
            \A n \in 0..MaxItems : \A contents \in [1..n -> ItemContents] :
                html.html = ListOf(kind, contents) =>
                    /\ Len(Nodes) = 1
                    /\ Nodes[1].t = "element"
                    /\ Nodes[1].type = kind
                    /\ Len(Nodes[1].children.v) = n
                    /\ \A k \in 1..n :
                          LET item == Nodes[1].children.v[k]
                          IN  /\ item.type = "li"
                              /\ item.children
                                    = parseInlineContent(trim(contents[k]), k - 1)
                              /\ TextOf(item)
                                    = trim(removeAll(contents[k],
                                                     InlineTags(SimpleFormats)))

\* SimpleHtmlRenderer rendered "<ul><li>x</li><li>y</li></ul>" as one <ul>
\* of two items that hold x and y.
C17_Witness ==
    /\ Rendered("SimpleHtmlRenderer")
    /\ html.html = ListOf("ul", <<(<<"x">>), (<<"y">>)>>)
    /\ Len(Nodes) = 1
    /\ Nodes[1].type = "ul"
    /\ Len(Nodes[1].children.v) = 2
    /\ TextOf(Nodes[1].children.v[1]) = <<"x">>
    /\ TextOf(Nodes[1].children.v[2]) = <<"y">>

\* C18: EnhancedHtmlRenderer wraps text inside <b> in strong and text
\* inside <i> in em, and renders a fragment that is one <ul> or <ol> as a
\* list node of that kind whose <li> nodes hold the text of the items.
C18_EnhancedAcceptsExtendedVocabulary ==
    Rendered("EnhancedHtmlRenderer") =>
        /\ \A k1 \in {"b", "i"}, k2 \in DOMAIN EnhancedFormats :
              html.html = Open(k1) \o <<"x">> \o Open(k2) \o Close(k2) \o Close(k1) =>
                  LET actual == SegmentsOf(A(Nodes), <<>>)
                  IN  /\ Len(actual) = 1
                      /\ actual[1].text = <<"x">>
                      /\ FormatsAround(actual[1]) = <<EnhancedFormats[k1]>>
        /\ \A kind \in {"ul", "ol"} :
              OccursAt(html.html, Open(kind), 1) =>
                \A n \in 1..MaxItems : \A contents \in [1..n -> ItemContents] :
                    html.html = ListOf(kind, contents) =>
                        \E list \in ElementsOf(rendered.element) :
                            /\ list.type = kind
                            /\ list.children.t = "array"
                            /\ Len(list.children.v) = n
                            /\ \A k \in 1..n :
                                  /\ list.children.v[k].type = "li"
                                  /\ TextOf(list.children.v[k])
                                        = trim(removeAll(contents[k],
                                                 InlineTags(EnhancedFormats)))

\* The string holds nothing but paragraph tags and whitespace.
OnlyParagraphTagsAndWhitespace(str) ==
    LET tokens == Tokens(str)
    IN  \A k \in 1..Len(tokens) :
            IF k % 2 = 1
            THEN NonWhitespace(tokens[k]) = <<>>
            ELSE tokens[k] \in ParagraphTags

\* C19: for the empty string and for a fragment of paragraph tags and
\* whitespace only, the node sequence a renderer produces has no element.
C19_NothingRendersAsEmptySequence ==
    (rendered # NoReturn /\ OnlyParagraphTagsAndWhitespace(html.html)) =>
        Nodes = <<>>

\* C19 (amended): for the empty string and for a fragment of paragraph tags
\* and whitespace only, EnhancedHtmlRenderer produces the empty sequence and
\* SimpleHtmlRenderer a sequence whose one entry is an empty array; either
\* way the output holds no element below the <div> and no text.
C19_NothingRendersNoNode ==
    (rendered # NoReturn /\ OnlyParagraphTagsAndWhitespace(html.html)) =>
        /\ Nodes = IF rendered.component = "EnhancedHtmlRenderer"
                   THEN <<>>
                   ELSE <<A(<<>>)>>
        /\ ElementsOf(A(Nodes)) = {}
        /\ TextOf(A(Nodes)) = <<>>

\* SimpleHtmlRenderer rendered "<p> </p>" as a sequence whose one entry is
\* an empty array.
C19_Witness ==
    /\ Rendered("SimpleHtmlRenderer")
    /\ html.html = Open("p") \o <<" ">> \o Close("p")
    /\ Nodes = <<A(<<>>)>>

(***************************************************************************)
(* The skills section of the About page: one ProgressBar per skill.        *)
(***************************************************************************)
MaxSkills == 4

\* The levels of the Skill type, and one the type does not name (the level
\* is handed through from the CMS as it comes).
Levels == {"beginner", "intermediate", "advanced", "expert", "master"}

Skill(level) == O([title |-> S("TypeScript"), level |-> S(level)])

\* A bar that is full whatever the level.
ProgressBarValueFlat(level) == 100

\* value={skill.level === "beginner" ? 25 : ... ? 50 : ... ? 75 : 100}
ProgressBarValue(level) ==
    IF level.t = "string" /\ level.v = "beginner" THEN 25
    ELSE IF level.t = "string" /\ level.v = "intermediate" THEN 50
    ELSE IF level.t = "string" /\ level.v = "advanced" THEN 75
    ELSE 100

\* about.technical.skills.map((skill) => ... <ProgressBar value={...} />)
SkillBars(list) ==
    A([k \in 1..Len(list.v) |-> Num(ProgressBarValue(Get(list.v[k], "level")))])

InitSkills ==
    /\ env = MkEnv("", "", "", "", "")
    /\ route = [r \in Renders |-> "about"]
    /\ inv = [r \in Renders |-> [c \in Callers |-> Idle]]
    /\ cacheAbout = [r \in Renders |-> Empty]
    /\ cacheBlog = [r \in Renders |-> Empty]
    /\ sent = [r \in Renders |-> 0]
    /\ lastReq = NoRequest
    /\ ret = NoReturn
    /\ shown = [r \in Renders |-> "nothing"]
    /\ statics = StaticRecords
    /\ imgIn = NoReturn
    /\ imgOut = NoReturn
    /\ html = NoReturn
    /\ rendered = NoReturn
    /\ skills \in {A([k \in 1..n |-> Skill(levels[k])]) :
                      n \in 0..MaxSkills, levels \in [1..MaxSkills -> Levels]}
    /\ bars = NoReturn
    /\ SiteIdle

\* The About page renders its skills.
RenderSkills ==
    /\ bars = NoReturn
    /\ bars' = SkillBars(skills)
    /\ UNCHANGED <<env, imgIn, imgOut, html, rendered, skills>>
    /\ UNCHANGED resolverVars
    /\ UNCHANGED siteVars

NextSkills == RenderSkills

SpecSkills == InitSkills /\ [][NextSkills]_vars

\* The value the spec gives for a level.
SpecifiedValue ==
    [beginner |-> 25, intermediate |-> 50, advanced |-> 75, expert |-> 100]

\* C20: the ProgressBar of a skill whose level is beginner, intermediate,
\* advanced or expert has the value 25, 50, 75 or 100, in that order.
C20_SkillLevelsMapToBarValues ==
    bars # NoReturn =>
        /\ Len(bars.v) = Len(skills.v)
        /\ \A k \in 1..Len(skills.v) :
              LET level == Get(skills.v[k], "level").v
              IN  level \in DOMAIN SpecifiedValue =>
                      bars.v[k] = Num(SpecifiedValue[level])

\* The About page rendered skills of all four levels.
C20_Witness ==
    /\ bars # NoReturn
    /\ skills = A(<<Skill("beginner"), Skill("intermediate"),
                    Skill("advanced"), Skill("expert")>>)
    /\ bars = A(<<Num(25), Num(50), Num(75), Num(100)>>)

(***************************************************************************)
(* Independence of concurrent renders.                                     *)
(***************************************************************************)
\* C21: whatever the interleaving of the renders, the value a render gets
\* back is the one computed from the outcome of a request that this render
\* sent (or from the missing configuration), the cache entry it was taken
\* from is the render's own, and the module-level static records are as
\* they were at start.
C21_RendersAreIndependent ==
    /\ statics = StaticRecords
    /\ Returned =>
          /\ ret.page = route[ret.render]
          /\ ret.value = Resolve(env, ret.page,
                                 FetchResult(env, ret.page, ret.outcome))
          /\ ret.outcome.kind # "unconfigured" => sent[ret.render] >= 1
          /\ Cached(ret.page) =>
                CacheOf(ret.render)
                    = Settled(ret.outcome, FetchResult(env, ret.page, ret.outcome))

\* Two renders of the about page ran interleaved: the request of r1 failed,
\* the request of r2 succeeded afterwards and r2 got live content back.
C21_Witness ==
    /\ Returned
    /\ ret.render = "r2"
    /\ ret.page = "about"
    /\ route["r1"] = "about"
    /\ cacheAbout["r1"].st = "settled"
    /\ TransportFailed(cacheAbout["r1"].outcome)
    /\ FetchSucceeded(ret.outcome)
    /\ ~IsThrow(ret.value)
    /\ ret.value.loading = B(FALSE)

(***************************************************************************)
(* getStrapiImageUrl on its own: every configuration of the four URL       *)
(* variables, image paths with and without a leading slash.                *)
(***************************************************************************)
ImagePaths ==
    {"/uploads/a.jpg", "/uploads/thumbnail_a.jpg", "uploads/b.png", "",
     "http://cdn/c.jpg"}

InitImageUrl ==
    /\ env \in AllEnvs
    /\ route = [r \in Renders |-> "home"]
    /\ inv = [r \in Renders |-> [c \in Callers |-> Idle]]
    /\ cacheAbout = [r \in Renders |-> Empty]
    /\ cacheBlog = [r \in Renders |-> Empty]
    /\ sent = [r \in Renders |-> 0]
    /\ lastReq = NoRequest
    /\ ret = NoReturn
    /\ shown = [r \in Renders |-> "nothing"]
    /\ statics = StaticRecords
    /\ imgIn \in [imagePath : {S(path) : path \in ImagePaths}]
    /\ imgOut = NoReturn
    /\ html = NoReturn
    /\ rendered = NoReturn
    /\ skills = NoReturn
    /\ bars = NoReturn
    /\ SiteIdle

CallStrapiImageUrl ==
    /\ imgOut = NoReturn
    /\ imgOut' = getStrapiImageUrl(env, imgIn.imagePath)
    /\ UNCHANGED <<env, imgIn>>
    /\ UNCHANGED rendererVars
    /\ UNCHANGED resolverVars
    /\ UNCHANGED siteVars

NextImageUrl == CallStrapiImageUrl

SpecImageUrl == InitImageUrl /\ [][NextImageUrl]_vars

\* The order in which the configured values are preferred.
PrefixOrder ==
    <<"STRAPI_IMAGE_URL", "NEXT_PUBLIC_STRAPI_IMAGE_URL", "STRAPI_API_URL",
      "NEXT_PUBLIC_STRAPI_API_URL">>

RECURSIVE FirstConfigured(_, _)
FirstConfigured(e, i) ==
    IF i > Len(PrefixOrder) THEN "http://localhost:1337"
    ELSE IF e[PrefixOrder[i]] # "" THEN e[PrefixOrder[i]]
    ELSE FirstConfigured(e, i + 1)

\* C23: the URL getStrapiImageUrl returns is the given image path prefixed
\* with the first configured value in the order STRAPI_IMAGE_URL,
\* NEXT_PUBLIC_STRAPI_IMAGE_URL, STRAPI_API_URL, NEXT_PUBLIC_STRAPI_API_URL,
\* and with http://localhost:1337 when none is configured; so it ends with
\* the given image path, whatever that path is.
C23_FirstConfiguredPrefixesThePath ==
    imgOut # NoReturn =>
        /\ imgOut = S(FirstConfigured(env, 1) \o Str(imgIn.imagePath))
        /\ \E prefix \in {env[name] : name \in EnvNames \ {"STRAPI_API_TOKEN"}}
                            \cup {"http://localhost:1337"} :
              /\ prefix # ""
              /\ Str(imgOut) = prefix \o Str(imgIn.imagePath)

\* A public image URL wins over a configured API URL.
C23_Witness ==
    /\ env = MkEnv("http://api", "http://pub-api", "", "http://pub-img", "")
    /\ imgIn.imagePath = S("/uploads/a.jpg")
    /\ imgOut = S("http://pub-img/uploads/a.jpg")

(***************************************************************************)
(* Locale selection: the constants of the i18n module, the middleware,     *)
(* detectServerLocale and the /api/locale route.  Path names, cookie       *)
(* values and header values are sequences of characters, so that           *)
(* startsWith, split and trim are computed as JavaScript computes them.    *)
(***************************************************************************)
\* A string value whose characters matter.
Chars(str) == [t |-> "chars", v |-> str]

\* JavaScript truthiness, strings of characters included.
TruthyValue(x) == IF x.t = "chars" THEN x.v # <<>> ELSE Truthy(x)

es == <<"e", "s">>

en == <<"e", "n">>

locales == <<es, en>>

defaultLocale == es

\* locales.includes(value)
isValidLocale(value) ==
    value.t = "chars" /\ \E i \in 1..Len(locales) : locales[i] = value.v

\* str.split(separator) for a string separator.
RECURSIVE splitOn(_, _)
splitOn(str, separator) ==
    LET i == FirstOf(str, {separator}, 1)
    IN  IF i = 0 THEN <<str>>
        ELSE <<SubSeq(str, 1, i - 1)>>
             \o splitOn(SliceFrom(str, i + Len(separator)), separator)

\* str.startsWith(prefix)
startsWith(str, prefix) == OccursAt(str, prefix, 1)

\* The matcher of the middleware: the path after the leading slash neither
\* starts with one of the excluded names nor holds a dot.
matcher(pathname) ==
    LET rest == Tail(pathname)
        excluded == {<<"_", "n", "e", "x", "t">>, <<"a", "p", "i">>}
    IN  /\ \A name \in excluded : ~startsWith(rest, name)
        /\ \A i \in 1..Len(rest) : rest[i] # "."

\* pathnameHasLocale without the startsWith alternative.
PathnameIsLocale(pathname) ==
    \E i \in 1..Len(locales) : pathname = <<"/">> \o locales[i]

pathnameHasLocale(pathname) ==
    \E i \in 1..Len(locales) :
        \/ startsWith(pathname, <<"/">> \o locales[i] \o <<"/">>)
        \/ pathname = <<"/">> \o locales[i]

\* The middleware preferring the header to the cookie.
MiddlewareLocaleHeaderFirst(req) ==
    LET cookieLocale == req.cookie
        acceptLanguage == req.acceptLanguage
        preferredLocale ==
            splitOn(splitOn(acceptLanguage.v, <<",">>)[1], <<"-">>)[1]
    IN  IF TruthyValue(acceptLanguage) /\ isValidLocale(Chars(preferredLocale))
        THEN preferredLocale
        ELSE IF TruthyValue(cookieLocale) /\ isValidLocale(cookieLocale)
        THEN cookieLocale.v
        ELSE defaultLocale

\* The locale the middleware puts in front of a path without one.
middlewareLocale(req) ==
    LET cookieLocale == req.cookie
        acceptLanguage == req.acceptLanguage
    IN  IF TruthyValue(cookieLocale) /\ isValidLocale(cookieLocale)
        THEN cookieLocale.v
        ELSE IF TruthyValue(acceptLanguage)
        THEN LET preferredLocale ==
                     splitOn(splitOn(acceptLanguage.v, <<",">>)[1], <<"-">>)[1]
             IN  IF isValidLocale(Chars(preferredLocale))
                 THEN preferredLocale
                 ELSE defaultLocale
        ELSE defaultLocale

middleware(req) ==
    IF pathnameHasLocale(req.pathname) THEN [t |-> "next"]
    ELSE [t |-> "redirect",
          pathname |-> <<"/">> \o middlewareLocale(req) \o req.pathname]

\* lang.split(";")[0].trim().split("-")[0]
LanguageOf(lang) == splitOn(trim(splitOn(lang, <<";">>)[1]), <<"-">>)[1]

RECURSIVE FirstValid(_, _)
FirstValid(langs, i) ==
    IF i > Len(langs) THEN defaultLocale
    ELSE IF isValidLocale(Chars(LanguageOf(langs[i]))) THEN LanguageOf(langs[i])
    ELSE FirstValid(langs, i + 1)

\* detectServerLocale(headers) in the scope of request req.
detectServerLocale(req) ==
    LET cookieLocale == req.cookie
        acceptLanguage == req.acceptLanguage
    IN  IF TruthyValue(cookieLocale) /\ isValidLocale(cookieLocale)
        THEN cookieLocale.v
        ELSE IF TruthyValue(acceptLanguage)
        THEN FirstValid(splitOn(acceptLanguage.v, <<",">>), 1)
        ELSE defaultLocale

\* POST /api/locale for the outcome `body` of request.json(): the response
\* and the value handed to cookieStore.set, undefined when it is not called.
PostLocale(body) ==
    IF IsThrow(body) \/ Nullish(body)
    THEN [t |-> "json", status |-> 500, setCookie |-> U]
    ELSE LET requested == Get(body, "locale")
         IN  IF ~TruthyValue(requested) \/ ~isValidLocale(requested)
             THEN [t |-> "json", status |-> 400, setCookie |-> U]
             ELSE [t |-> "json", status |-> 200, setCookie |-> requested]

(***************************************************************************)
(* The site handling requests: page navigations pass the middleware, a     *)
(* redirect is followed by the browser with the same cookie and headers,   *)
(* POST /api/locale writes the cookie, detectServerLocale runs in the      *)
(* scope of a page request.                                                *)
(***************************************************************************)
MaxRedirects == 3

esp == <<"e", "s", "p">>

Segments == {es, en, esp, <<"a", "p", "i">>, <<"a", ".", "b">>}

\* "/", "/a", "/a/" and "/a/b" over the segments.
Pathnames ==
    {<<"/">>}
    \cup {<<"/">> \o a : a \in Segments}
    \cup {<<"/">> \o a \o <<"/">> : a \in Segments}
    \cup {<<"/">> \o a \o <<"/">> \o b : a \in Segments, b \in {en, esp}}

fr == <<"f", "r">>

\* What the browser holds as locale cookie: nothing, a value the route
\* has set, or a stale or edited value.
CookieValues ==
    {U, Chars(<<>>), Chars(es), Chars(en), Chars(fr), Chars(<<"E", "N">>)}

q == <<";", "q", "=", "0", ".", "8">>

\* Accept-Language: absent, empty, one language, with a region, with a
\* quality value, several languages, with a space after the comma.
AcceptLanguages ==
    {Null, Chars(<<>>), Chars(es), Chars(en), Chars(fr),
     Chars(en \o <<"-", "U", "S">>), Chars(en \o q),
     Chars(fr \o <<",">> \o en),
     Chars(fr \o <<"-", "F", "R", ",">> \o en \o q),
     Chars(fr \o <<",", " ">> \o es)}

\* Outcomes of request.json() in the route handler.
Bodies ==
    {Throw("SyntaxError"), Null, Num(1), O(<<>>),
     O([locale |-> Null]), O([locale |-> Num(1)]),
     O([locale |-> Chars(<<>>)]), O([locale |-> Chars(es)]),
     O([locale |-> Chars(en)]), O([locale |-> Chars(fr)]),
     O([locale |-> A(<<Chars(es)>>)])}

PageRequest(pathname, acceptLanguage) ==
    [method |-> "GET", pathname |-> pathname, cookie |-> cookie,
     acceptLanguage |-> acceptLanguage, body |-> U]

\* The site's answer to a page request: the middleware's, when its matcher
\* selects the path.
Answer(req) ==
    IF matcher(req.pathname) THEN middleware(req) ELSE [t |-> "unmatched"]

InitLocale ==
    /\ env = MkEnv("", "", "", "", "")
    /\ route = [r \in Renders |-> "home"]
    /\ inv = [r \in Renders |-> [c \in Callers |-> Idle]]
    /\ cacheAbout = [r \in Renders |-> Empty]
    /\ cacheBlog = [r \in Renders |-> Empty]
    /\ sent = [r \in Renders |-> 0]
    /\ lastReq = NoRequest
    /\ ret = NoReturn
    /\ shown = [r \in Renders |-> "nothing"]
    /\ statics = StaticRecords
    /\ imgIn = NoReturn
    /\ imgOut = NoReturn
    /\ html = NoReturn
    /\ rendered = NoReturn
    /\ skills = NoReturn
    /\ bars = NoReturn
    /\ cookie \in CookieValues
    /\ request = NoReturn
    /\ response = NoReturn
    /\ redirects = 0
    /\ detected = NoReturn
    /\ ProviderIdle
    /\ PostsIdle

\* The browser navigates to a path; the middleware answers.
Navigate(pathname, acceptLanguage) ==
    LET req == PageRequest(pathname, acceptLanguage)
    IN  /\ request' = req
        /\ response' = Answer(req)
        /\ redirects' = IF response'.t = "redirect" THEN 1 ELSE 0
        /\ detected' = NoReturn
        /\ UNCHANGED <<env, imgIn, imgOut, cookie>>
        /\ UNCHANGED <<rendererVars, resolverVars, providerVars, postsVars>>

\* The browser follows the redirect; the middleware answers again.
FollowRedirect ==
    /\ response.t = "redirect"
    /\ redirects < MaxRedirects
    /\ LET req == [request EXCEPT !.pathname = response.pathname,
                                  !.cookie = cookie]
       IN  /\ request' = req
           /\ response' = Answer(req)
           /\ redirects' = IF response'.t = "redirect"
                           THEN redirects + 1 ELSE redirects
    /\ detected' = NoReturn
    /\ UNCHANGED <<env, imgIn, imgOut, cookie>>
    /\ UNCHANGED <<rendererVars, resolverVars, providerVars, postsVars>>

\* Server code of the page calls detectServerLocale with the request's
\* headers.
DetectServerLocale ==
    /\ request # NoReturn
    /\ request.method = "GET"
    /\ detected = NoReturn
    /\ detected' = Chars(detectServerLocale(request))
    /\ UNCHANGED <<env, imgIn, imgOut, cookie, request, response, redirects>>
    /\ UNCHANGED <<rendererVars, resolverVars, providerVars, postsVars>>

\* POST /api/locale; the browser stores the cookie the response sets.
Post(body) ==
    /\ request' = [method |-> "POST",
                   pathname |-> <<"/", "a", "p", "i", "/", "l", "o", "c", "a", "l", "e">>,
                   cookie |-> cookie, acceptLanguage |-> Null, body |-> body]
    /\ response' = PostLocale(body)
    /\ cookie' = IF response'.setCookie = U
                 THEN cookie ELSE response'.setCookie
    /\ redirects' = 0
    /\ detected' = NoReturn
    /\ UNCHANGED <<env, imgIn, imgOut>>
    /\ UNCHANGED <<rendererVars, resolverVars, providerVars, postsVars>>

NextLocale ==
    \/ \E pathname \in Pathnames, acceptLanguage \in AcceptLanguages :
          Navigate(pathname, acceptLanguage)
    \/ FollowRedirect
    \/ DetectServerLocale
    \/ \E body \in Bodies : Post(body)

SpecLocale == InitLocale /\ [][NextLocale]_vars

TypeOKLocale == redirects \in 0..MaxRedirects

(***************************************************************************)
(* Properties of the locale selection.                                     *)
(***************************************************************************)
ValidLocales == {es, en}

\* The path is a locale alone or starts with a locale and a slash.
HasLocalePrefix(pathname) ==
    \E l \in ValidLocales :
        \/ pathname = <<"/">> \o l
        \/ /\ Len(pathname) >= Len(l) + 2
           /\ SubSeq(pathname, 1, Len(l) + 2) = <<"/">> \o l \o <<"/">>

\* The primary language of a header value: its text up to the first comma
\* or hyphen.
RECURSIVE PrimaryLanguage(_)
PrimaryLanguage(value) ==
    IF value = <<>> \/ Head(value) \in {",", "-"} THEN <<>>
    ELSE <<Head(value)>> \o PrimaryLanguage(Tail(value))

\* The locale the selection order names for a request.
SelectedLocale(req) ==
    IF req.cookie.t = "chars" /\ req.cookie.v \in ValidLocales
    THEN req.cookie.v
    ELSE IF req.acceptLanguage.t = "chars"
            /\ PrimaryLanguage(req.acceptLanguage.v) \in ValidLocales
    THEN PrimaryLanguage(req.acceptLanguage.v)
    ELSE es

\* The middleware has answered a page request.
MiddlewareAnswered ==
    /\ request # NoReturn
    /\ request.method = "GET"
    /\ response.t \in {"next", "redirect"}

RequestedLocale(body) ==
    IF body.t = "object" /\ "locale" \in DOMAIN body.v
    THEN body.v["locale"] ELSE U

IsLocale(value) == value.t = "chars" /\ value.v \in ValidLocales

\* C24: POST /api/locale sets the cookie only to es or en, and a request
\* whose locale is missing or invalid is answered 400 and sets no cookie.
C24_InvalidLocaleGets400AndKeepsCookie ==
    (request # NoReturn /\ request.method = "POST") =>
        /\ response.setCookie # U => IsLocale(response.setCookie)
        /\ ~IsLocale(RequestedLocale(request.body)) =>
              /\ response.status = 400
              /\ response.setCookie = U

\* C26: the path the middleware redirects to starts with a valid locale,
\* and the middleware answers at most one redirect in a navigation: the
\* redirected request passes through.
C26_AtMostOneRedirect ==
    /\ redirects <= 1
    /\ (MiddlewareAnswered /\ response.t = "redirect") =>
          /\ HasLocalePrefix(response.pathname)
          /\ matcher(response.pathname)

\* The browser has followed a redirect to /en/ and the middleware let the
\* redirected request pass.
C26_Witness ==
    /\ MiddlewareAnswered
    /\ redirects = 1
    /\ request.pathname = <<"/">> \o en \o <<"/">>
    /\ request.cookie = Chars(en)
    /\ response.t = "next"

\* C27: for the cookie and the Accept-Language header of one request,
\* detectServerLocale returns the locale the middleware selects.
C27_DetectionsAgree ==
    (detected # NoReturn /\ request # NoReturn) =>
        detected = Chars(middlewareLocale(request))

(***************************************************************************)
(* LocaleProvider after it has mounted in the browser: the effects of a    *)
(* commit run in the order they are declared, each with the locale of the  *)
(* render that declared it; a state update queued by an effect renders     *)
(* again once the effects of the commit have run, and a render with a      *)
(* changed locale runs both effects again.                                 *)
(***************************************************************************)
\* detectClientLocale() in the browser.
detectClientLocale(savedLocale, browserLanguage) ==
    IF TruthyValue(savedLocale) /\ isValidLocale(savedLocale)
    THEN savedLocale.v
    ELSE LET browserLocale == splitOn(browserLanguage.v, <<"-">>)[1]
         IN  IF isValidLocale(Chars(browserLocale))
             THEN browserLocale
             ELSE defaultLocale

\* localStorage.getItem("locale"): null when nothing is stored.
StoredValues == {Null, Chars(<<>>), Chars(es), Chars(en), Chars(fr)}

\* navigator.language
Languages ==
    {Chars(es), Chars(en), Chars(fr), Chars(es \o <<"-", "M", "X">>),
     Chars(en \o <<"-", "U", "S">>), Chars(fr \o <<"-", "F", "R">>)}

\* The effects of LocaleProvider in declaration order.
Effects == <<"detect", "save">>

InitProvider ==
    /\ env = MkEnv("", "", "", "", "")
    /\ route = [r \in Renders |-> "home"]
    /\ inv = [r \in Renders |-> [c \in Callers |-> Idle]]
    /\ cacheAbout = [r \in Renders |-> Empty]
    /\ cacheBlog = [r \in Renders |-> Empty]
    /\ sent = [r \in Renders |-> 0]
    /\ lastReq = NoRequest
    /\ ret = NoReturn
    /\ shown = [r \in Renders |-> "nothing"]
    /\ statics = StaticRecords
    /\ imgIn = NoReturn
    /\ imgOut = NoReturn
    /\ html = NoReturn
    /\ rendered = NoReturn
    /\ skills = NoReturn
    /\ bars = NoReturn
    /\ LocaleIdle
    /\ localeState \in {Chars(locales[i]) : i \in 1..Len(locales)}
    /\ storage \in StoredValues
    /\ language \in Languages
    /\ effects = Effects
    /\ pending = NoReturn
    /\ PostsIdle

\* The first effect: detect the locale and queue it when it differs.
DetectEffect ==
    /\ effects # <<>>
    /\ Head(effects) = "detect"
    /\ LET detectedLocale == detectClientLocale(storage, language)
       IN  pending' = IF detectedLocale # localeState.v
                      THEN Chars(detectedLocale) ELSE pending
    /\ effects' = Tail(effects)
    /\ UNCHANGED <<env, imgIn, imgOut, localeState, storage, language>>
    /\ UNCHANGED <<rendererVars, resolverVars, localeVars, postsVars>>

\* The second effect: save the locale of this render.
SaveEffect ==
    /\ effects # <<>>
    /\ Head(effects) = "save"
    /\ storage' = localeState
    /\ effects' = Tail(effects)
    /\ UNCHANGED <<env, imgIn, imgOut, localeState, language, pending>>
    /\ UNCHANGED <<rendererVars, resolverVars, localeVars, postsVars>>

\* React renders LocaleProvider with the queued state; the dependency
\* [locale] of both effects has changed when the locale has.
Rerender ==
    /\ effects = <<>>
    /\ pending # NoReturn
    /\ localeState' = pending
    /\ pending' = NoReturn
    /\ effects' = IF pending # localeState THEN Effects ELSE <<>>
    /\ UNCHANGED <<env, imgIn, imgOut, storage, language>>
    /\ UNCHANGED <<rendererVars, resolverVars, localeVars, postsVars>>

NextProvider == DetectEffect \/ SaveEffect \/ Rerender

SpecProvider == InitProvider /\ [][NextProvider]_vars

\* React runs every effect it has scheduled and every render it has queued.
FairSpecProvider == SpecProvider /\ WF_vars(NextProvider)

\* No effect is left to run and no state update is queued.
Quiescent == effects = <<>> /\ pending = NoReturn

\* C25: after LocaleProvider has mounted, whatever the initial locale, the
\* stored value and the browser language, its effects eventually come to
\* rest for good, and then the locale state is the locale localStorage
\* holds.
C25_EffectsSettleOnStoredLocale ==
    <>[](Quiescent /\ localeState = storage)

(***************************************************************************)
(* Close tags of the inline parser.                                        *)
(***************************************************************************)
\* seq without every occurrence of type.
WithoutType(seq, type) == SelectSeq(seq, LAMBDA other : other # type)

\* C28: a close tag of kind k takes every open occurrence of k off the
\* active formats, wherever it sits among them and however often k was
\* opened, and leaves the other open kinds in their order: the text after
\* the close tag has the wrappers of the text before it without those of
\* kind k, and one wrapper of kind k exactly when k was opened again.
C28_CloseRemovesEveryOccurrence ==
    rendered # NoReturn =>
        \A n \in 1..MaxOpen, kinds \in [1..MaxOpen -> ClosingKinds],
           k \in ClosingKinds, again \in BOOLEAN :
            html.html = Concat([j \in 1..n |-> Open(kinds[j])]) \o <<"x">>
                            \o Close(k) \o (IF again THEN Open(k) ELSE <<>>)
                            \o <<"y">> =>
                LET segments == SegmentsOf(A(Nodes), <<>>)
                    before == FormatsAround(segments[1])
                    after == FormatsAround(segments[2])
                IN  /\ Len(segments) = 2
                    /\ segments[1].text = <<"x">>
                    /\ segments[2].text = <<"y">>
                    /\ Len(before) = n
                    /\ \A kind \in ClosingKinds :
                          Len(WithoutType(before, kind))
                            = n - Cardinality({j \in 1..n : kinds[j] = kind})
                    /\ WithoutType(after, k) = WithoutType(before, k)
                    /\ Len(after) - Len(WithoutType(after, k))
                          = IF again THEN 1 ELSE 0

\* <strong><strong>x</strong>y: x is wrapped twice, y not at all.
C28_Witness ==
    /\ Rendered("SimpleHtmlRenderer")
    /\ html.html = Open("strong") \o Open("strong") \o <<"x">>
                       \o Close("strong") \o <<"y">>
    /\ FormatsAround(SegmentsOf(A(Nodes), <<>>)[1]) = <<"strong", "strong">>
    /\ FormatsAround(SegmentsOf(A(Nodes), <<>>)[2]) = <<>>

(***************************************************************************)
(* The locale of the CMS requests.                                         *)
(***************************************************************************)
\* The path and the populate parameter of the three CMS requests.
CmsQueries ==
    {"/api/home?populate=all", "/api/about?populate=*", "/api/posts?populate=*"}

\* C29: every request the resolver hands to fetch(), for home, about and
\* posts alike, asks the CMS for locale en, never for the site's default
\* locale es: the URL is the configured API URL, the path of the page type
\* and locale=en, and nothing of the visitor's request enters it.
C29_CmsRequestsAskForEnglish ==
    lastReq # NoRequest =>
        /\ lastReq.url \in {Str(ApiUrl(env)) \o query \o "&locale=en" :
                               query \in CmsQueries}
        /\ lastReq.url \notin {Str(ApiUrl(env)) \o query \o "&locale=es" :
                                  query \in CmsQueries}

\* A render of the blog page has asked for the posts.
C29_Witness ==
    /\ lastReq # NoRequest
    /\ \E r \in Renders : route[r] = "blog" /\ sent[r] >= 1
    /\ lastReq.url = Str(ApiUrl(env)) \o "/api/posts?populate=*&locale=en"

(***************************************************************************)
(* src/components/blog/Posts.tsx: the posts a listing displays, and the    *)
(* listings of the blog page.                                              *)
(***************************************************************************)
\* str.toLowerCase(), over the letters the posts of the model use.
toLowerCase(str) ==
    [k \in 1..Len(str) |->
        CASE str[k] = "A" -> "a" [] str[k] = "B" -> "b" [] OTHER -> str[k]]

\* str.includes(query)
includes(str, query) == \E i \in 1..(Len(str) + 1) : OccursAt(str, query, i)

\* new Date(publishedAt).getTime(), in days.
getTime(publishedAt) ==
    CASE publishedAt = "2024-01-15T00:00:00.000Z" -> 19737
      [] publishedAt = "2024-02-01T00:00:00.000Z" -> 19754
      [] publishedAt = "2024-03-10T00:00:00.000Z" -> 19792

BlogPost(slug, title, summary, tag, content, publishedAt) ==
    [slug |-> slug, title |-> title, summary |-> summary, tag |-> tag,
     content |-> content, publishedAt |-> publishedAt]

\* The search filter of Posts for the trimmed, lower-case query.
Matches(post, query) ==
    \/ includes(toLowerCase(post.title), query)
    \/ includes(toLowerCase(post.summary), query)
    \/ (post.tag # U /\ includes(toLowerCase(post.tag.v), query))
    \/ includes(toLowerCase(post.content), query)

\* Array.prototype.sort with (a, b) => time(b) - time(a): descending, and
\* stable, so posts with equal times keep their order.
RECURSIVE InsertByTime(_, _)
InsertByTime(sorted, post) ==
    IF sorted = <<>> THEN <<post>>
    ELSE IF getTime(post.publishedAt) - getTime(Head(sorted).publishedAt) <= 0
    THEN <<Head(sorted)>> \o InsertByTime(Tail(sorted), post)
    ELSE <<post>> \o sorted

RECURSIVE sortByPublishedAt(_)
sortByPublishedAt(blogs) ==
    IF blogs = <<>> THEN <<>>
    ELSE InsertByTime(sortByPublishedAt(SubSeq(blogs, 1, Len(blogs) - 1)),
                      blogs[Len(blogs)])

\* slice taking the element at `end` too.
sliceThroughEnd(arr, start, end) ==
    SubSeq(arr, start + 1, IF end + 1 < Len(arr) THEN end + 1 ELSE Len(arr))

\* arr.slice(start, end) for start >= 0.
slice(arr, start, end) ==
    SubSeq(arr, start + 1, IF end < Len(arr) THEN end ELSE Len(arr))

\* The posts Posts displays once they are loaded.
displayedBlogs(allBlogs, exclude, searchQuery, range) ==
    LET notExcluded ==
            IF exclude # {}
            THEN SelectSeq(allBlogs, LAMBDA post : post.slug \notin exclude)
            ELSE allBlogs
        searching == searchQuery # U /\ trim(searchQuery.v) # <<>>
        filteredBlogs ==
            IF searching
            THEN SelectSeq(notExcluded,
                     LAMBDA post : Matches(post, trim(toLowerCase(searchQuery.v))))
            ELSE notExcluded
        sortedBlogs == sortByPublishedAt(filteredBlogs)
    IN  IF range # U
        THEN slice(sortedBlogs, range.v[1] - 1,
                   IF Len(range.v) = 2 THEN range.v[2] ELSE Len(sortedBlogs))
        ELSE sortedBlogs

\* The listings of the blog page: the search results, or the newest post,
\* the next two and the earlier ones.
BlogListings(allBlogs, isSearching, searchValue) ==
    IF isSearching
    THEN <<displayedBlogs(allBlogs, {}, searchValue, U)>>
    ELSE <<displayedBlogs(allBlogs, {}, Chars(<<>>), A(<<1, 1>>)),
           displayedBlogs(allBlogs, {}, Chars(<<>>), A(<<2, 3>>)),
           displayedBlogs(allBlogs, {}, Chars(<<>>), A(<<4>>))>>

MaxPosts == 5

\* The posts the CMS holds: distinct slugs, two pairs published at the
\* same time.
Catalogue ==
    {BlogPost("s1", <<"A", "b">>, <<>>, U, <<"c">>, "2024-03-10T00:00:00.000Z"),
     BlogPost("s2", <<"b">>, <<"a">>, Chars(<<"B">>), <<>>, "2024-02-01T00:00:00.000Z"),
     BlogPost("s3", <<"c">>, <<"c">>, U, <<"c", " ", "a">>, "2024-02-01T00:00:00.000Z"),
     BlogPost("s4", <<"c">>, <<>>, Chars(<<"a">>), <<>>, "2024-01-15T00:00:00.000Z"),
     BlogPost("s5", <<"d">>, <<"d">>, Chars(<<"d">>), <<"d">>, "2024-03-10T00:00:00.000Z")}

\* The posts as the API returns them: any of the catalogue, in any order.
PostLists ==
    UNION {{list \in [1..n -> Catalogue] :
                \A i \in 1..n, j \in 1..n : list[i] = list[j] => i = j} :
           n \in 0..MaxPosts}

Excludes == {{}, {"s2", "s5"}}

SearchQueries ==
    {U, Chars(<<>>), Chars(<<" ">>), Chars(<<"A", " ">>), Chars(<<"z">>)}

Ranges ==
    {U, A(<<1, 1>>), A(<<2, 3>>), A(<<4>>), A(<<2>>), A(<<3, 6>>)}

InitPosts ==
    /\ env = MkEnv("", "", "", "", "")
    /\ route = [r \in Renders |-> "home"]
    /\ inv = [r \in Renders |-> [c \in Callers |-> Idle]]
    /\ cacheAbout = [r \in Renders |-> Empty]
    /\ cacheBlog = [r \in Renders |-> Empty]
    /\ sent = [r \in Renders |-> 0]
    /\ lastReq = NoRequest
    /\ ret = NoReturn
    /\ shown = [r \in Renders |-> "nothing"]
    /\ statics = StaticRecords
    /\ imgIn = NoReturn
    /\ imgOut = NoReturn
    /\ html = NoReturn
    /\ rendered = NoReturn
    /\ skills = NoReturn
    /\ bars = NoReturn
    /\ LocaleIdle
    /\ ProviderIdle
    /\ blog \in [allBlogs : PostLists, exclude : Excludes,
                 searchQuery : SearchQueries, range : Ranges]
    /\ listings = NoReturn

\* One Posts listing renders the loaded posts with its props.
RenderPosts ==
    /\ listings = NoReturn
    /\ listings' = [component |-> "Posts",
                    lists |-> <<displayedBlogs(blog.allBlogs, blog.exclude,
                                               blog.searchQuery, blog.range)>>]
    /\ UNCHANGED <<env, imgIn, imgOut, blog>>
    /\ UNCHANGED <<rendererVars, resolverVars, localeVars, providerVars>>

\* The blog page renders its listings over the loaded posts.
RenderBlog(isSearching) ==
    /\ listings = NoReturn
    /\ isSearching => blog.searchQuery # U
    /\ listings' = [component |-> "Blog", isSearching |-> isSearching,
                    lists |-> BlogListings(blog.allBlogs, isSearching,
                                           blog.searchQuery)]
    /\ UNCHANGED <<env, imgIn, imgOut, blog>>
    /\ UNCHANGED <<rendererVars, resolverVars, localeVars, providerVars>>

NextPosts == RenderPosts \/ \E isSearching \in BOOLEAN : RenderBlog(isSearching)

SpecPosts == InitPosts /\ [][NextPosts]_vars

(***************************************************************************)
(* Properties of the post listings.                                        *)
(***************************************************************************)
\* The posts of the listing's input that pass its exclusion and search
\* filters.
KeptPosts ==
    {post \in {blog.allBlogs[k] : k \in 1..Len(blog.allBlogs)} :
        /\ post.slug \notin blog.exclude
        /\ (blog.searchQuery # U /\ trim(blog.searchQuery.v) # <<>>) =>
              Matches(post, trim(toLowerCase(blog.searchQuery.v)))}

\* How many kept posts were published after the post, and how many not
\* before it (itself included): the first and the last place a listing by
\* publishedAt descending can give it is one more than the former, and
\* the latter.
Newer(post) ==
    Cardinality({other \in KeptPosts :
        getTime(other.publishedAt) > getTime(post.publishedAt)})

NotOlder(post) ==
    Cardinality({other \in KeptPosts :
        getTime(other.publishedAt) >= getTime(post.publishedAt)})

=============================================================================
